---- MODULE Spec2Model ----
(***************************************************************************)
(* Model of the ADF <-> Markdown converter (src/src/converter/index.ts),   *)
(* of the upload tool that consumes it (src/src/tools/upload-page.ts), of  *)
(* the file manager and of the OAuth client and its tools.                 *)
(*                                                                         *)
(* A JavaScript string is a sequence of one-character strings; indices     *)
(* handed to the String* operators are 0-based as in the source.  A panel  *)
(* icon is one symbol of the alphabet (the source only ever compares whole *)
(* icons).  A node is a record with the fields of ADFNode that are set.    *)
(***************************************************************************)
EXTENDS Integers, Sequences, FiniteSets, TLC

VARIABLES input, pc, markdown, lines, i, nodes, metadata, last, upload,
          fileManager,
          now, storage, clients, listener, promises, tools, obs

\* the converter and the upload handler
converterVars == <<input, pc, markdown, lines, i, nodes, metadata, last, upload>>
\* the OAuth client, its token storage and the OAuth tools
oauthVars == <<now, storage, clients, listener, promises, tools, obs>>

vars == <<input, pc, markdown, lines, i, nodes, metadata, last, upload,
          fileManager, now, storage, clients, listener, promises, tools, obs>>

(***************************************************************************)
(* Bounds of the model.                                                    *)
(***************************************************************************)
MaxLines == 2
MaxBlocks == 3
MaxNodes == 6

(***************************************************************************)
(* JavaScript string primitives.                                           *)
(***************************************************************************)
Whitespace == {" ", "\n", "\t"}
Digits == {"0", "1", "2", "3", "4", "5", "6", "7", "8", "9"}
Letters == {"a", "b", "c", "d", "e", "f", "g", "h", "i", "j", "k", "l", "m",
            "n", "o", "p", "q", "r", "s", "t", "u", "v", "w", "x", "y", "z",
            "A", "B", "C", "D", "E", "F", "G", "H", "I", "J", "K", "L", "M",
            "N", "O", "P", "Q", "R", "S", "T", "U", "V", "W", "X", "Y", "Z"}
WordChars == Digits \union Letters \union {"_"}

Undefined == <<"undefined">>

\* the character U+0060, which opens and closes code spans and fences
Backtick == "BACKTICK"

Truthy(s) == s # Undefined /\ s # <<>>

Min(S) == CHOOSE x \in S : \A y \in S : x <= y
Max(S) == CHOOSE x \in S : \A y \in S : x >= y

Substring(s, a, b) ==
  LET lo == IF a < 0 THEN 0 ELSE IF a > Len(s) THEN Len(s) ELSE a
      hi == IF b < 0 THEN 0 ELSE IF b > Len(s) THEN Len(s) ELSE b
  IN  IF lo <= hi THEN SubSeq(s, lo + 1, hi) ELSE SubSeq(s, hi + 1, lo)

SubstringFrom(s, a) == Substring(s, a, Len(s))

StartsWith(s, p) == Len(s) >= Len(p) /\ SubSeq(s, 1, Len(p)) = p

\* Trim that removes only the space character
TrimSpacesOnly(s) ==
  LET keep == {k \in 1..Len(s) : s[k] # " "}
  IN  IF keep = {} THEN <<>> ELSE SubSeq(s, Min(keep), Max(keep))

Trim(s) ==
  LET keep == {k \in 1..Len(s) : s[k] \notin Whitespace}
  IN  IF keep = {} THEN <<>> ELSE SubSeq(s, Min(keep), Max(keep))

IndexOf(s, p, from) ==
  LET hits == {k \in from..(Len(s) - Len(p)) : SubSeq(s, k + 1, k + Len(p)) = p}
  IN  IF hits = {} THEN -1 ELSE Min(hits)

Includes(s, p) == IndexOf(s, p, 0) # -1

RECURSIVE Split(_, _)
Split(s, sep) ==
  LET Cut(k) == IF k = -1 THEN <<s>>
                ELSE <<Substring(s, 0, k)>> \o Split(SubstringFrom(s, k + 1), sep)
  IN  Cut(IndexOf(s, <<sep>>, 0))

RECURSIVE Join(_, _)
Join(ss, sep) ==
  IF ss = <<>> THEN <<>>
  ELSE IF Len(ss) = 1 THEN ss[1]
  ELSE ss[1] \o sep \o Join(Tail(ss), sep)

RECURSIVE Concat(_)
Concat(ss) == IF ss = <<>> THEN <<>> ELSE ss[1] \o Concat(Tail(ss))

\* Repeat with the count ignored
RepeatOnce(s, n) == s

Repeat(s, n) == Concat([k \in 1..n |-> s])

\* length of the longest prefix of s made of characters of the set cs
RunLength(s, cs) ==
  LET stop == {k \in 1..Len(s) : s[k] \notin cs}
  IN  IF stop = {} THEN Len(s) ELSE Min(stop) - 1

\* length of the longest prefix of s made of characters outside the set cs
RunLengthNot(s, cs) ==
  LET stop == {k \in 1..Len(s) : s[k] \in cs}
  IN  IF stop = {} THEN Len(s) ELSE Min(stop) - 1

\* /^\d+\. /.test(s)
IsOrderedItem(s) ==
  LET Test(d) == d >= 1 /\ StartsWith(SubstringFrom(s, d), <<".", " ">>)
  IN  Test(RunLength(s, Digits))

IsBulletItem(s) == StartsWith(s, <<"-", " ">>) \/ StartsWith(s, <<"*", " ">>)

\* s.replace(/^(\d+\. |- |\* )/, '')
StripListMarker(s) ==
  IF IsOrderedItem(s) THEN SubstringFrom(s, RunLength(s, Digits) + 2)
  ELSE IF IsBulletItem(s) THEN SubstringFrom(s, 2)
  ELSE s

(***************************************************************************)
(* Nodes and marks.                                                        *)
(***************************************************************************)
NullNode == [type |-> "null"]

PlainText(t) == [type |-> "text", text |-> t]
\* MarkedText with every mark written twice
MarkedTextTwice(t, ms) == [type |-> "text", text |-> t, marks |-> ms \o ms]
MarkedText(t, ms) == [type |-> "text", text |-> t, marks |-> ms]
Mark(m) == [type |-> m]
LinkMark(href) == [type |-> "link", attrs |-> [href |-> href]]

IconInfo == "ICON_INFO"
IconWarning == "ICON_WARNING"
IconError == "ICON_ERROR"
IconSuccess == "ICON_SUCCESS"
IconNote == "ICON_NOTE"

PanelTypes == {"info", "warning", "error", "success", "note"}

\* icons: Record<string, string> of panelToMarkdown
icons(panelType) ==
  CASE panelType = "info" -> IconInfo
    [] panelType = "warning" -> IconWarning
    [] panelType = "error" -> IconError
    [] panelType = "success" -> IconSuccess
    [] panelType = "note" -> IconNote
    [] OTHER -> IconInfo

\* panelTypeMap with the entries after the first missing
panelTypeMapInfoOnly(icon) == "info"

\* panelTypeMap: Record<string, string> of parseNode
panelTypeMap(icon) ==
  CASE icon = IconInfo -> "info"
    [] icon = IconWarning -> "warning"
    [] icon = IconError -> "error"
    [] icon = IconSuccess -> "success"
    [] icon = IconNote -> "note"
    [] OTHER -> "info"

\* panelType.charAt(0).toUpperCase() + panelType.slice(1)
typeText(panelType) ==
  CASE panelType = "info" -> <<"I", "n", "f", "o">>
    [] panelType = "warning" -> <<"W", "a", "r", "n", "i", "n", "g">>
    [] panelType = "error" -> <<"E", "r", "r", "o", "r">>
    [] panelType = "success" -> <<"S", "u", "c", "c", "e", "s", "s">>
    [] panelType = "note" -> <<"N", "o", "t", "e">>
    [] OTHER -> <<"I", "n", "f", "o">>

(***************************************************************************)
(* Serializer: adfToMarkdown and the renderers it dispatches to.           *)
(***************************************************************************)
Has(n, f) == f \in DOMAIN n

ContentOf(n) == IF Has(n, "content") THEN n.content ELSE <<>>

\* one iteration of the switch over mark.type in inlineToMarkdown
\* ApplyMark with the em mark written with underscores
ApplyMarkUnderscoreEm(text, mark) ==
  CASE mark.type = "strong" -> <<"*", "*">> \o text \o <<"*", "*">>
    [] mark.type = "em" -> <<"_">> \o text \o <<"_">>
    [] mark.type = "code" -> <<Backtick>> \o text \o <<Backtick>>
    [] mark.type = "link" -> <<"[">> \o text \o <<"]", "(">> \o mark.attrs.href \o <<")">>
    [] mark.type = "strike" -> <<"~", "~">> \o text \o <<"~", "~">>
    [] OTHER -> text

ApplyMark(text, mark) ==
  CASE mark.type = "strong" -> <<"*", "*">> \o text \o <<"*", "*">>
    [] mark.type = "em" -> <<"*">> \o text \o <<"*">>
    [] mark.type = "code" -> <<Backtick>> \o text \o <<Backtick>>
    [] mark.type = "link" ->
         <<"[">> \o text \o <<"]", "(">>
           \o (IF Has(mark, "attrs") /\ Has(mark.attrs, "href") /\ Truthy(mark.attrs.href)
               THEN mark.attrs.href ELSE <<>>)
           \o <<")">>
    [] mark.type = "strike" -> <<"~", "~">> \o text \o <<"~", "~">>
    [] OTHER -> text

\* ApplyMarks with the loop run from the last mark to the first
RECURSIVE ApplyMarksReversed(_, _)
ApplyMarksReversed(text, marks) ==
  IF marks = <<>> THEN text
  ELSE ApplyMark(ApplyMarksReversed(text, Tail(marks)), marks[1])

\* for (const mark of node.marks) { text = wrap(text) }
RECURSIVE ApplyMarks(_, _)
ApplyMarks(text, marks) ==
  IF marks = <<>> THEN text
  ELSE ApplyMarks(ApplyMark(text, marks[1]), Tail(marks))

RECURSIVE nodeToMarkdown(_, _)
RECURSIVE inlineToMarkdown(_)
RECURSIVE listToMarkdown(_, _, _)
RECURSIVE tableToMarkdown(_)
RECURSIVE panelToMarkdown(_)

inlineToMarkdown(content) ==
  Concat([k \in 1..Len(content) |->
    LET node == content[k]
    IN  IF node.type = "text"
        THEN LET text == IF Has(node, "text") THEN node.text ELSE <<>>
             IN  IF Has(node, "marks") THEN ApplyMarks(text, node.marks) ELSE text
        ELSE IF node.type = "hardBreak" THEN <<"\n">>
        ELSE nodeToMarkdown(node, 0)])

paragraphToMarkdown(node) ==
  IF ~Has(node, "content") THEN <<>> ELSE inlineToMarkdown(node.content)

\* '1.', '2.', ... of listToMarkdown (decimal rendering of index + 1)
RECURSIVE DecimalString(_)
DecimalString(n) ==
  LET d == <<"0", "1", "2", "3", "4", "5", "6", "7", "8", "9">>
  IN  IF n < 10 THEN <<d[n + 1]>> ELSE DecimalString(n \div 10) \o <<d[(n % 10) + 1]>>

listToMarkdown(node, depth, ordered) ==
  IF ~Has(node, "content") THEN <<>>
  ELSE Join([k \in 1..Len(node.content) |->
         LET item == node.content[k]
             marker == IF ordered THEN DecimalString(k) \o <<".">> ELSE <<"-">>
             indent == Repeat(<<" ", " ">>, depth)
             content == Trim(Concat([c \in 1..Len(ContentOf(item)) |->
                           nodeToMarkdown(ContentOf(item)[c], depth + 1)]))
         IN  indent \o marker \o <<" ">> \o content], <<"\n">>)

\* content.replace(/\n/g, ' ')
NewlinesToSpaces(s) == [k \in 1..Len(s) |-> IF s[k] = "\n" THEN " " ELSE s[k]]

\* the text of one cell of tableToMarkdown
CellToMarkdown(cell) ==
  IF cell.type # "tableCell" /\ cell.type # "tableHeader" THEN <<>>
  ELSE NewlinesToSpaces(Trim(Concat([c \in 1..Len(ContentOf(cell)) |->
         nodeToMarkdown(ContentOf(cell)[c], 0)])))

\* '| ' + cells.join(' | ') + ' |'
PipeRow(cells) == <<"|", " ">> \o Join(cells, <<" ", "|", " ">>) \o <<" ", "|">>

\* TableRows without isFirstRow = false
RECURSIVE TableRowsNoReset(_, _)
TableRowsNoReset(rows, isFirstRow) ==
  IF rows = <<>> THEN <<>>
  ELSE LET row == rows[1]
       IN  IF row.type # "tableRow" \/ ~Has(row, "content")
           THEN TableRowsNoReset(Tail(rows), isFirstRow)
           ELSE LET Emit(cells) ==
                      <<PipeRow(cells)>>
                        \o (IF isFirstRow
                            THEN <<PipeRow([k \in 1..Len(cells) |-> <<"-", "-", "-">>])>>
                            ELSE <<>>)
                        \o TableRowsNoReset(Tail(rows), isFirstRow)
                IN  Emit([k \in 1..Len(row.content) |-> CellToMarkdown(row.content[k])])

RECURSIVE TableRows(_, _)
TableRows(rows, isFirstRow) ==
  IF rows = <<>> THEN <<>>
  ELSE LET row == rows[1]
       IN  IF row.type # "tableRow" \/ ~Has(row, "content")
           THEN TableRows(Tail(rows), isFirstRow)
           ELSE LET Emit(cells) ==
                      <<PipeRow(cells)>>
                        \o (IF isFirstRow
                            THEN <<PipeRow([k \in 1..Len(cells) |-> <<"-", "-", "-">>])>>
                            ELSE <<>>)
                        \o TableRows(Tail(rows), FALSE)
                IN  Emit([k \in 1..Len(row.content) |-> CellToMarkdown(row.content[k])])

tableToMarkdown(node) ==
  IF ~Has(node, "content") THEN <<>>
  ELSE Join(TableRows(node.content, TRUE), <<"\n">>)

panelToMarkdown(node) ==
  LET panelType == IF Has(node, "attrs") /\ Has(node.attrs, "panelType")
                   THEN node.attrs.panelType ELSE "info"
      content == Trim(Concat([c \in 1..Len(ContentOf(node)) |->
                    nodeToMarkdown(ContentOf(node)[c], 0)]))
  IN  <<">", " ", icons(panelType), " ", "*", "*">> \o typeText(panelType)
        \o <<":", "*", "*", " ">> \o content

\* blockquote case: split on '\n', prefix every line with '> ', join
QuoteLines(s) ==
  LET Prefix(ls) == Join([k \in 1..Len(ls) |-> <<">", " ">> \o ls[k]], <<"\n">>)
  IN  Prefix(Split(s, "\n"))

nodeToMarkdown(node, depth) ==
  CASE node.type = "paragraph" -> paragraphToMarkdown(node) \o <<"\n", "\n">>
    [] node.type = "heading" ->
         LET level == IF Has(node, "attrs") /\ Has(node.attrs, "level") /\ node.attrs.level # 0
                      THEN node.attrs.level ELSE 1
         IN  Repeat(<<"#">>, level) \o <<" ">> \o inlineToMarkdown(ContentOf(node))
               \o <<"\n", "\n">>
    [] node.type = "codeBlock" ->
         LET language == IF Has(node, "attrs") /\ Has(node.attrs, "language")
                            /\ Truthy(node.attrs.language)
                         THEN node.attrs.language ELSE <<>>
             codeContent == IF ContentOf(node) # <<>> /\ Has(ContentOf(node)[1], "text")
                            THEN ContentOf(node)[1].text ELSE <<>>
         IN  <<Backtick, Backtick, Backtick>> \o language \o <<"\n">> \o codeContent
               \o <<"\n", Backtick, Backtick, Backtick, "\n", "\n">>
    [] node.type = "blockquote" ->
         QuoteLines(Concat([c \in 1..Len(ContentOf(node)) |->
           nodeToMarkdown(ContentOf(node)[c], depth + 1)])) \o <<"\n", "\n">>
    [] node.type = "bulletList" -> listToMarkdown(node, depth, FALSE) \o <<"\n">>
    [] node.type = "orderedList" -> listToMarkdown(node, depth, TRUE) \o <<"\n">>
    [] node.type = "listItem" ->
         Repeat(<<" ", " ">>, depth) \o <<"-", " ">>
           \o Trim(Concat([c \in 1..Len(ContentOf(node)) |->
                nodeToMarkdown(ContentOf(node)[c], depth)]))
           \o <<"\n">>
    [] node.type = "table" -> tableToMarkdown(node) \o <<"\n", "\n">>
    [] node.type = "rule" -> <<"-", "-", "-", "\n", "\n">>
    [] node.type = "panel" -> panelToMarkdown(node) \o <<"\n", "\n">>
    [] OTHER -> Concat([c \in 1..Len(ContentOf(node)) |->
                  nodeToMarkdown(ContentOf(node)[c], depth)])

(***************************************************************************)
(* Front-matter codec: yaml.stringify and yaml.parse on the flat mappings  *)
(* the converter hands them.  A metadata value is [kind |-> "undefined"],  *)
(* [kind |-> "null"], [kind |-> "scalar", value |-> s] or                  *)
(* [kind |-> "map", entries |-> <<[key |-> k, value |-> v], ...>>] with    *)
(* v = [t |-> "str" or "num", v |-> s]; a failed decode is                 *)
(* [kind |-> "error"].                                                     *)
(***************************************************************************)
NoMetadata == [kind |-> "undefined"]

AllDigits(s) == s # <<>> /\ \A k \in 1..Len(s) : s[k] \in Digits

YamlScalar(v) ==
  IF v.t = "str" /\ AllDigits(v.v) THEN <<"\"">> \o v.v \o <<"\"">> ELSE v.v

YamlStringify(meta) ==
  IF meta.entries = <<>> THEN <<"{", "}", "\n">>
  ELSE Concat([k \in 1..Len(meta.entries) |->
         meta.entries[k].key \o <<":", " ">> \o YamlScalar(meta.entries[k].value)
           \o <<"\n">>])

\* one `key: value` line; [kind |-> "entry" | "scalar" | "error", ...]
YamlLine(l) ==
  LET YamlError == [kind |-> "error", key |-> <<>>, value |-> [t |-> "str", v |-> <<>>]]
      Value(c, raw) ==
        IF StartsWith(raw, <<"\"">>)
        THEN IF Len(raw) >= 2 /\ raw[Len(raw)] = "\""
                /\ IndexOf(Substring(raw, 1, Len(raw) - 1), <<"\"">>, 0) = -1
             THEN [kind |-> "entry", key |-> Substring(l, 0, c),
                   value |-> [t |-> "str", v |-> Substring(raw, 1, Len(raw) - 1)]]
             ELSE YamlError
        ELSE IF IndexOf(raw, <<":", " ">>, 0) # -1 THEN YamlError
        ELSE [kind |-> "entry", key |-> Substring(l, 0, c),
              value |-> [t |-> IF AllDigits(raw) THEN "num" ELSE "str", v |-> raw]]
      Entry(c) ==
        IF c = -1
        THEN [kind |-> "scalar", key |-> <<>>, value |-> [t |-> "str", v |-> Trim(l)]]
        ELSE Value(c, Trim(SubstringFrom(l, c + 2)))
  IN  Entry(IndexOf(l, <<":", " ">>, 0))

YamlParse(body) ==
  LET Decode(ls, parsed) ==
        LET kinds == {parsed[k].kind : k \in 1..Len(ls)}
        IN  IF ls = <<>> THEN [kind |-> "null"]
            ELSE IF kinds = {"entry"}
            THEN IF \E a, b \in 1..Len(ls) : a # b /\ parsed[a].key = parsed[b].key
                 THEN [kind |-> "error"]
                 ELSE [kind |-> "map",
                       entries |-> [k \in 1..Len(ls) |->
                                     [key |-> parsed[k].key, value |-> parsed[k].value]]]
            ELSE IF kinds = {"scalar"}
            THEN [kind |-> "scalar",
                  value |-> Join([k \in 1..Len(ls) |-> parsed[k].value.v], <<" ">>)]
            ELSE [kind |-> "error"]
      Lines(ls) == Decode(ls, [k \in 1..Len(ls) |-> YamlLine(ls[k])])
  IN  Lines(SelectSeq(Split(body, "\n"), LAMBDA l : Trim(l) # <<>>))

\* JavaScript truthiness of a decoded front-matter value
MetadataTruthy(m) ==
  m.kind = "map" \/ (m.kind = "scalar" /\ m.value # <<>>)

(***************************************************************************)
(* Inline tokenizer: parseInlineMarkdown.                                  *)
(***************************************************************************)
\* /^open([^excl]+)close/ : the captured text and the length of the match
MatchDelimited(s, open, close, excl) ==
  LET Test(body) ==
        IF StartsWith(s, open) /\ body >= 1
           /\ StartsWith(SubstringFrom(s, Len(open) + body), close)
        THEN [ok |-> TRUE, text |-> Substring(s, Len(open), Len(open) + body),
              len |-> Len(open) + body + Len(close)]
        ELSE [ok |-> FALSE, text |-> <<>>, len |-> 0]
  IN  Test(RunLengthNot(SubstringFrom(s, Len(open)), excl))

\* /^\[([^\]]+)\]\(([^)]+)\)/
MatchLink(s) ==
  LET Test(t, h) ==
        IF StartsWith(s, <<"[">>) /\ t >= 1
           /\ StartsWith(SubstringFrom(s, t + 1), <<"]", "(">>) /\ h >= 1
           /\ StartsWith(SubstringFrom(s, t + 3 + h), <<")">>)
        THEN [ok |-> TRUE, text |-> Substring(s, 1, t + 1),
              href |-> Substring(s, t + 3, t + 3 + h), len |-> t + h + 4]
        ELSE [ok |-> FALSE, text |-> <<>>, href |-> <<>>, len |-> 0]
      Href(t) == Test(t, RunLengthNot(SubstringFrom(s, t + 3), {")"}))
  IN  Href(RunLengthNot(SubstringFrom(s, 1), {"]"}))

SpecialChars == {"*", Backtick, "[", "~"}

\* one iteration of the while loop of parseInlineMarkdown without the minimum
\* advance: remaining.substring(textLength)
InlineIterationNoMinimum(remaining) ==
  LET Marked(m, marks) == [node |-> MarkedText(m.text, marks), length |-> m.len]
      Plain(textLength) ==
        [node |-> PlainText(Substring(remaining, 0, textLength)), length |-> textLength]
      Strike(m) == IF m.ok THEN Marked(m, <<Mark("strike")>>)
                   ELSE Plain(RunLengthNot(remaining, SpecialChars))
      Link(m) == IF m.ok THEN Marked(m, <<LinkMark(m.href)>>)
                 ELSE Strike(MatchDelimited(remaining, <<"~", "~">>, <<"~", "~">>, {"~"}))
      Code(m) == IF m.ok THEN Marked(m, <<Mark("code")>>) ELSE Link(MatchLink(remaining))
      Em(m) == IF m.ok THEN Marked(m, <<Mark("em")>>)
               ELSE Code(MatchDelimited(remaining, <<Backtick>>, <<Backtick>>, {Backtick}))
      Strong(m) == IF m.ok THEN Marked(m, <<Mark("strong")>>)
                   ELSE Em(MatchDelimited(remaining, <<"*">>, <<"*">>, {"*"}))
  IN  Strong(MatchDelimited(remaining, <<"*", "*">>, <<"*", "*">>, {"*"}))

\* one iteration of the while loop of parseInlineMarkdown, remaining not empty:
\* the node pushed and the number of characters removed from remaining
InlineIteration(remaining) ==
  LET Marked(m, marks) == [node |-> MarkedText(m.text, marks), length |-> m.len]
      Plain(textLength) ==
        LET advance == IF textLength = 0 THEN 1 ELSE textLength
        IN  [node |-> PlainText(Substring(remaining, 0, advance)), length |-> advance]
      Strike(m) == IF m.ok THEN Marked(m, <<Mark("strike")>>)
                   ELSE Plain(RunLengthNot(remaining, SpecialChars))
      Link(m) == IF m.ok THEN Marked(m, <<LinkMark(m.href)>>)
                 ELSE Strike(MatchDelimited(remaining, <<"~", "~">>, <<"~", "~">>, {"~"}))
      Code(m) == IF m.ok THEN Marked(m, <<Mark("code")>>) ELSE Link(MatchLink(remaining))
      Em(m) == IF m.ok THEN Marked(m, <<Mark("em")>>)
               ELSE Code(MatchDelimited(remaining, <<Backtick>>, <<Backtick>>, {Backtick}))
      Strong(m) == IF m.ok THEN Marked(m, <<Mark("strong")>>)
                   ELSE Em(MatchDelimited(remaining, <<"*">>, <<"*">>, {"*"}))
  IN  Strong(MatchDelimited(remaining, <<"*", "*">>, <<"*", "*">>, {"*"}))

\* the while loop of parseInlineMarkdown
RECURSIVE InlineTokens(_)
InlineTokens(remaining) ==
  LET Emit(m, marks) ==
        <<MarkedText(m.text, marks)>> \o InlineTokens(SubstringFrom(remaining, m.len))
      Plain(textLength) ==
        LET advance == IF textLength = 0 THEN 1 ELSE textLength
        IN  <<PlainText(Substring(remaining, 0, advance))>>
              \o InlineTokens(SubstringFrom(remaining, advance))
      Strike(m) == IF m.ok THEN Emit(m, <<Mark("strike")>>)
                   ELSE Plain(RunLengthNot(remaining, SpecialChars))
      Link(m) == IF m.ok THEN Emit(m, <<LinkMark(m.href)>>)
                 ELSE Strike(MatchDelimited(remaining, <<"~", "~">>, <<"~", "~">>, {"~"}))
      Code(m) == IF m.ok THEN Emit(m, <<Mark("code")>>) ELSE Link(MatchLink(remaining))
      Em(m) == IF m.ok THEN Emit(m, <<Mark("em")>>)
               ELSE Code(MatchDelimited(remaining, <<Backtick>>, <<Backtick>>, {Backtick}))
      Strong(m) == IF m.ok THEN Emit(m, <<Mark("strong")>>)
                   ELSE Em(MatchDelimited(remaining, <<"*">>, <<"*">>, {"*"}))
  IN  IF Len(remaining) = 0 THEN <<>>
      ELSE Strong(MatchDelimited(remaining, <<"*", "*">>, <<"*", "*">>, {"*"}))

parseInlineMarkdown(text) ==
  LET NonEmpty(tokens) == IF Len(tokens) > 0 THEN tokens ELSE <<PlainText(text)>>
  IN  IF text = <<>> THEN <<>> ELSE NonEmpty(InlineTokens(text))

(***************************************************************************)
(* Block recognizer: parseNode, and markdownToADF as the function the      *)
(* blockquote branch re-enters.  A result carries status "ok", "hang" (the *)
(* call never returns) or "throw" (yaml.parse raised).                     *)
(***************************************************************************)
Fence == <<Backtick, Backtick, Backtick>>
Icons == {IconInfo, IconWarning, IconError, IconSuccess, IconNote}

\* lines[k] of a JavaScript array, 0-based
LineAt(ls, k) == ls[k + 1]

\* /^> (icon) \*\*(\w+):\*\* (.+)$/
MatchPanel(line) ==
  LET Test(w) ==
        LET content == SubstringFrom(line, 6 + w + 4)
        IN  IF StartsWith(line, <<">", " ">>) /\ Len(line) >= 6 /\ line[3] \in Icons
               /\ Substring(line, 3, 6) = <<" ", "*", "*">> /\ w >= 1
               /\ Substring(line, 6 + w, 6 + w + 4) = <<":", "*", "*", " ">>
               /\ Len(content) >= 1 /\ \A k \in 1..Len(content) : content[k] # "\n"
            THEN [ok |-> TRUE, icon |-> line[3], content |-> content]
            ELSE [ok |-> FALSE, icon |-> IconInfo, content |-> <<>>]
  IN  Test(RunLength(SubstringFrom(line, 6), WordChars))

\* SkipWhile with the prefix tested on the trimmed line
SkipWhileTrimmed(ls, from, prefix, starts) ==
  LET stop == {j \in from..(Len(ls) - 1) : StartsWith(Trim(LineAt(ls, j)), prefix) # starts}
  IN  IF stop = {} THEN Max({from, Len(ls)}) ELSE Min(stop)

\* while (i < lines.length && lines[i].startsWith(prefix) === starts) i++,
\* started at from
SkipWhile(ls, from, prefix, starts) ==
  LET stop == {j \in from..(Len(ls) - 1) : StartsWith(LineAt(ls, j), prefix) # starts}
  IN  IF stop = {} THEN Max({from, Len(ls)}) ELSE Min(stop)

IsListItem(isOrdered, currentLine) ==
  IF isOrdered THEN IsOrderedItem(currentLine) ELSE IsBulletItem(currentLine)

\* the while loop of the list branch: the items and the index it stops at
RECURSIVE ListLoop(_, _, _)
ListLoop(ls, k, isOrdered) ==
  LET Push(currentLine, rest) ==
        [items |-> <<[type |-> "listItem",
                      content |-> <<[type |-> "paragraph",
                        content |-> parseInlineMarkdown(StripListMarker(currentLine))]>>]>>
                     \o rest.items,
         next |-> rest.next]
      Step(currentLine, blank) ==
        IF ~IsListItem(isOrdered, currentLine) /\ ~blank THEN [items |-> <<>>, next |-> k]
        ELSE IF blank THEN ListLoop(ls, k + 1, isOrdered)
        ELSE Push(currentLine, ListLoop(ls, k + 1, isOrdered))
  IN  IF k >= Len(ls) THEN [items |-> <<>>, next |-> k]
      ELSE Step(LineAt(ls, k), Trim(LineAt(ls, k)) = <<>>)

\* currentLine.split('|').slice(1, -1).map(cell => cell.trim())
SplitCells(currentLine) ==
  LET Inner(parts) == [k \in 1..(Len(parts) - 2) |-> Trim(parts[k + 1])]
  IN  Inner(Split(currentLine, "|"))

\* TableLoop without isFirstRow = false
RECURSIVE TableLoopNoReset(_, _, _)
TableLoopNoReset(ls, k, isFirstRow) ==
  LET Push(cells, rest) ==
        [rows |-> <<[type |-> "tableRow",
                     content |-> [c \in 1..Len(cells) |->
                       [type |-> IF isFirstRow THEN "tableHeader" ELSE "tableCell",
                        content |-> <<[type |-> "paragraph",
                                       content |-> parseInlineMarkdown(cells[c])]>>]]]>>
                    \o rest.rows,
         next |-> rest.next]
      Step(currentLine) ==
        IF Includes(currentLine, <<"-", "-", "-">>) THEN TableLoopNoReset(ls, k + 1, isFirstRow)
        ELSE Push(SplitCells(currentLine), TableLoopNoReset(ls, k + 1, isFirstRow))
  IN  IF ~(k < Len(ls) /\ StartsWith(LineAt(ls, k), <<"|", " ">>))
      THEN [rows |-> <<>>, next |-> k]
      ELSE Step(LineAt(ls, k))

\* the while loop of the table branch: the rows and the index it stops at
RECURSIVE TableLoop(_, _, _)
TableLoop(ls, k, isFirstRow) ==
  LET Push(cells, rest) ==
        [rows |-> <<[type |-> "tableRow",
                     content |-> [c \in 1..Len(cells) |->
                       [type |-> IF isFirstRow THEN "tableHeader" ELSE "tableCell",
                        content |-> <<[type |-> "paragraph",
                                       content |-> parseInlineMarkdown(cells[c])]>>]]]>>
                    \o rest.rows,
         next |-> rest.next]
      Step(currentLine) ==
        IF Includes(currentLine, <<"-", "-", "-">>) THEN TableLoop(ls, k + 1, isFirstRow)
        ELSE Push(SplitCells(currentLine), TableLoop(ls, k + 1, FALSE))
  IN  IF ~(k < Len(ls) /\ StartsWith(LineAt(ls, k), <<"|", " ">>))
      THEN [rows |-> <<>>, next |-> k]
      ELSE Step(LineAt(ls, k))

\* parseNode with the paragraph fallback as its only rule for a non-blank line
parseNodeParagraphOnly(ls, startIndex) ==
  LET Fallback(line) ==
        IF line = <<>>
        THEN [status |-> "ok", node |-> NullNode, nextIndex |-> startIndex + 1]
        ELSE [status |-> "ok",
              node |-> [type |-> "paragraph", content |-> parseInlineMarkdown(line)],
              nextIndex |-> startIndex + 1]
  IN  Fallback(IF startIndex < Len(ls) THEN Trim(LineAt(ls, startIndex)) ELSE <<>>)

RECURSIVE parseNode(_, _)
RECURSIVE ParseLoop(_, _)
RECURSIVE markdownToADF(_)

Result(node, nextIndex) == [status |-> "ok", node |-> node, nextIndex |-> nextIndex]

parseNode(ls, startIndex) ==
  LET HeadingNode(line, level) ==
        Result([type |-> "heading", attrs |-> [level |-> level],
                content |-> <<PlainText(Trim(SubstringFrom(line, level)))>>],
               startIndex + 1)
      CodeNode(language, end) ==
        Result([type |-> "codeBlock",
                attrs |-> [language |-> IF language # <<>> THEN language ELSE Undefined],
                content |-> <<PlainText(Join(SubSeq(ls, startIndex + 2, end), <<"\n">>))>>],
               end + 1)
      PanelNode(panelMatch) ==
        Result([type |-> "panel",
                attrs |-> [panelType |-> panelTypeMap(panelMatch.icon)],
                content |-> <<[type |-> "paragraph",
                               content |-> <<PlainText(panelMatch.content)>>]>>],
               startIndex + 1)
      QuoteNode(inner, end) ==
        IF inner.status # "ok"
        THEN [status |-> inner.status, node |-> NullNode, nextIndex |-> end]
        ELSE Result([type |-> "blockquote", content |-> inner.content], end)
      Quote(end) ==
        QuoteNode(markdownToADF(Join([k \in 1..(end - startIndex) |->
                    SubstringFrom(LineAt(ls, startIndex + k - 1), 2)], <<"\n">>)), end)
      QuoteOrPanel(line, panelMatch) ==
        IF panelMatch.ok THEN PanelNode(panelMatch)
        ELSE Quote(SkipWhile(ls, startIndex, <<">", " ">>, TRUE))
      ListNode(isOrdered, loop) ==
        Result([type |-> IF isOrdered THEN "orderedList" ELSE "bulletList",
                content |-> loop.items], loop.next)
      List(isOrdered) == ListNode(isOrdered, ListLoop(ls, startIndex, isOrdered))
      TableNode(loop) == Result([type |-> "table", content |-> loop.rows], loop.next)
      Dispatch(line) ==
        IF line = <<>> THEN Result(NullNode, startIndex + 1)
        ELSE IF StartsWith(line, <<"#">>) THEN HeadingNode(line, RunLength(line, {"#"}))
        ELSE IF StartsWith(line, Fence)
        THEN CodeNode(Trim(SubstringFrom(line, 3)),
                      SkipWhile(ls, startIndex + 1, Fence, FALSE))
        ELSE IF StartsWith(line, <<">", " ">>) THEN QuoteOrPanel(line, MatchPanel(line))
        ELSE IF IsBulletItem(line) \/ IsOrderedItem(line) THEN List(IsOrderedItem(line))
        ELSE IF StartsWith(line, <<"|", " ">>) THEN TableNode(TableLoop(ls, startIndex, TRUE))
        ELSE IF line = <<"-", "-", "-">> THEN Result([type |-> "rule"], startIndex + 1)
        ELSE Result([type |-> "paragraph", content |-> parseInlineMarkdown(line)],
                    startIndex + 1)
  IN  Dispatch(IF startIndex < Len(ls) THEN Trim(LineAt(ls, startIndex)) ELSE <<>>)

\* FrontMatter with the closing fence searched from the newline of the opening
\* fence: indexOf('\n---\n', 3)
FrontMatterFromOpeningFence(md) ==
  LET Cut(endIndex) ==
        IF endIndex # -1
        THEN [metadata |-> YamlParse(Substring(md, 4, endIndex)),
              content |-> Trim(SubstringFrom(md, endIndex + 5))]
        ELSE [metadata |-> NoMetadata, content |-> md]
  IN  Cut(IF StartsWith(md, <<"-", "-", "-", "\n">>)
          THEN IndexOf(md, <<"\n", "-", "-", "-", "\n">>, 3) ELSE -1)

\* front-matter detection of markdownToADF
FrontMatter(md) ==
  LET Cut(endIndex) ==
        IF endIndex # -1
        THEN [metadata |-> YamlParse(Substring(md, 4, endIndex)),
              content |-> Trim(SubstringFrom(md, endIndex + 5))]
        ELSE [metadata |-> NoMetadata, content |-> md]
  IN  Cut(IF StartsWith(md, <<"-", "-", "-", "\n">>)
          THEN IndexOf(md, <<"\n", "-", "-", "-", "\n">>, 4) ELSE -1)

\* while (i < lines.length) { ... } run to its end
ParseLoop(ls, k) ==
  LET Push(result, rest) ==
        [status |-> rest.status,
         content |-> IF rest.status # "ok" THEN <<>>
                     ELSE IF result.node # NullNode THEN <<result.node>> \o rest.content
                     ELSE rest.content]
      Step(result) ==
        IF result.status # "ok" THEN [status |-> result.status, content |-> <<>>]
        ELSE IF result.nextIndex <= k THEN [status |-> "hang", content |-> <<>>]
        ELSE Push(result, ParseLoop(ls, result.nextIndex))
  IN  IF k >= Len(ls) THEN [status |-> "ok", content |-> <<>>]
      ELSE Step(parseNode(ls, k))

markdownToADF(md) ==
  LET Parse(fm) ==
        IF fm.metadata.kind = "error" THEN [status |-> "throw", content |-> <<>>]
        ELSE ParseLoop(Split(fm.content, "\n"), 0)
  IN  Parse(FrontMatter(md))

\* adfToMarkdown(adf, metadata)
adfToMarkdown(adf, meta) ==
  Trim((IF meta.kind # "undefined"
        THEN <<"-", "-", "-", "\n">> \o YamlStringify(meta) \o <<"-", "-", "-", "\n", "\n">>
        ELSE <<>>)
       \o Concat([k \in 1..Len(adf) |-> nodeToMarkdown(adf[k], 0)]))

(***************************************************************************)
(* Inputs.  Every family is a finite set of values a caller can pass.      *)
(***************************************************************************)
NonEmptySeqs(S, n) == UNION {[1..k -> S] : k \in 1..n}

Para(content) == [type |-> "paragraph", content |-> content]
Heading(level, content) ==
  [type |-> "heading", attrs |-> [level |-> level], content |-> content]
CodeBlock(language, body) ==
  [type |-> "codeBlock", attrs |-> [language |-> language], content |-> <<PlainText(body)>>]
CodeBlockNoLanguage(body) == [type |-> "codeBlock", content |-> <<PlainText(body)>>]
ListItem(t) == [type |-> "listItem", content |-> <<Para(<<PlainText(t)>>)>>]
BulletList(items) == [type |-> "bulletList", content |-> items]
OrderedList(items) == [type |-> "orderedList", content |-> items]
Cell(kind, content) == [type |-> kind, content |-> content]
Row(cells) == [type |-> "tableRow", content |-> cells]
Table(rows) == [type |-> "table", content |-> rows]
Panel(panelType, content) ==
  [type |-> "panel", attrs |-> [panelType |-> panelType], content |-> content]
Rule == [type |-> "rule"]

\* blocks of the kinds the converter round-trips
BasicBlocks ==
  { Para(<<PlainText(<<"a">>)>>),
    Para(<<MarkedText(<<"a">>, <<Mark("strong")>>)>>),
    Para(<<MarkedText(<<"a">>, <<LinkMark(<<"u">>)>>)>>),
    Heading(1, <<PlainText(<<"h">>)>>),
    Heading(6, <<PlainText(<<"h">>)>>),
    Heading(2, <<MarkedText(<<"h">>, <<Mark("em")>>)>>),
    CodeBlock(<<"j", "s">>, <<"c">>),
    CodeBlockNoLanguage(<<"c", "\n", "\n", " ", "d">>),
    BulletList(<<ListItem(<<"a">>), ListItem(<<"b">>)>>),
    OrderedList(<<ListItem(<<"a">>), ListItem(<<"b">>)>>),
    Table(<<Row(<<Cell("tableHeader", <<Para(<<PlainText(<<"a">>)>>)>>)>>),
            Row(<<Cell("tableCell", <<Para(<<PlainText(<<"b">>)>>)>>)>>)>>),
    Panel("note", <<Para(<<PlainText(<<"a">>)>>)>>),
    Rule }

MaxDocBlocks == 2

TreeKinds == {"roundtrip", "panel", "marks", "table", "meta", "code", "rules", "quotes"}

TreeInput(kind, doc, meta) ==
  [kind |-> kind, doc |-> doc, meta |-> meta, blocks |-> <<>>, text |-> <<>>,
   pageIdFromFilename |-> <<>>, spaceKey |-> <<>>]

RoundTripInputs == {TreeInput("roundtrip", d, NoMetadata) : d \in NonEmptySeqs(BasicBlocks, MaxDocBlocks)}

PanelTexts == {<<"a">>, <<"a", " ", "b">>, <<"a", " ">>, <<" ", "a">>,
               <<"*", "*", "a", "*", "*">>}

PanelInputs ==
  {TreeInput("panel", <<Panel(t, <<Para(<<PlainText(x)>>)>>)>> \o rest, NoMetadata) :
     t \in PanelTypes, x \in PanelTexts, rest \in {<<>>, <<Para(<<PlainText(<<"a">>)>>)>>}}

MaxMarks == 2

Marks == {Mark("strong"), Mark("em"), Mark("code"), Mark("strike"), LinkMark(<<"u">>)}

MarkInputs ==
  {TreeInput("marks", <<Para(<<MarkedText(<<"a">>, ms)>>)>>, NoMetadata) :
     ms \in NonEmptySeqs(Marks, MaxMarks)}

MaxRows == 2

TextCell == Cell("tableCell", <<Para(<<PlainText(<<"a">>)>>)>>)
PaddedHeaderCell == Cell("tableHeader", <<Para(<<PlainText(<<" ", "b", " ">>)>>)>>)
TwoParagraphCell ==
  Cell("tableCell", <<Para(<<PlainText(<<"a">>), [type |-> "hardBreak"], PlainText(<<"b">>)>>),
                      Para(<<PlainText(<<"c">>)>>)>>)
EmptyCell == Cell("tableCell", <<>>)

Rows ==
  { Row(<<TextCell>>),
    Row(<<PaddedHeaderCell, TextCell>>),
    Row(<<TextCell, TwoParagraphCell>>),
    Row(<<EmptyCell, PaddedHeaderCell>>),
    Row(<<EmptyCell>>),
    Row(<<TwoParagraphCell, EmptyCell, TextCell>>) }

TableInputs ==
  {TreeInput("table", <<Table(rows)>>, NoMetadata) : rows \in NonEmptySeqs(Rows, MaxRows)}

Str(s) == [t |-> "str", v |-> s]

MetaMaps ==
  LET pageId == <<"p", "a", "g", "e", "I", "d">>
      title == <<"t", "i", "t", "l", "e">>
      values == {<<"1", "2", "3">>, <<"T", "e", "s", "t", " ", "P", "a", "g", "e">>}
  IN  {[kind |-> "map", entries |-> <<[key |-> k, value |-> Str(v)]>>] :
         k \in {pageId, title}, v \in values}
      \union
      {[kind |-> "map", entries |-> <<[key |-> pageId, value |-> Str(v)],
                                      [key |-> title, value |-> Str(w)]>>] :
         v \in values, w \in values}

MetaInputs ==
  {TreeInput("meta", d, m) :
     d \in {<<>>, <<Para(<<PlainText(<<"a">>)>>)>>, <<Rule, Para(<<PlainText(<<"a">>)>>)>>},
     m \in MetaMaps}

TextInput(kind, text) ==
  [kind |-> kind, doc |-> <<>>, meta |-> NoMetadata, blocks |-> <<>>, text |-> text,
   pageIdFromFilename |-> <<>>, spaceKey |-> <<>>]

\* line shapes: one line of each form the block recognizer tells apart
LineShapes ==
  { <<>>,
    <<"#", " ", "h">>,
    <<"#", "#", "#", "#", "#", "#", "#", " ", "h">>,
    <<"-", " ", "a">>,
    <<" ", " ", "-", " ", "a">>,
    <<"1", ".", " ", "a">>,
    <<"|", " ", "a", " ", "|", " ", "b", " ", "|">>,
    <<" ", " ", "|", " ", "a", " ", "|">>,
    <<">", " ", "q">>,
    <<" ", " ", ">", " ", "q">>,
    <<">", " ", " ", " ", "-", " ", "a">>,
    <<Backtick, Backtick, Backtick>>,
    <<"t">>,
    <<"-", "-", "-">> }

LineInputs ==
  {TextInput("lines", Join(ls, <<"\n">>)) : ls \in NonEmptySeqs(LineShapes, MaxLines)}

MaxTableLines == 3

TableLineShapes ==
  { <<"|", " ", "a", " ", "|", " ", "b", " ", "|">>,
    <<"|", " ", "-", "-", "-", " ", "|", " ", "-", "-", "-", " ", "|">>,
    <<"|", " ", "a">>,
    <<"|", " ", "a", "-", "-", "-", "b", " ", "|">>,
    <<"t">> }

TableLineInputs ==
  {TextInput("tablelines", Join(ls, <<"\n">>)) : ls \in NonEmptySeqs(TableLineShapes, MaxTableLines)}

\* blocks of Markdown text: the node type each is written as, and its lines
Block(type, ls) == [type |-> type, lines |-> ls]

BlockShapes ==
  { Block("heading", <<<<"#", " ", "h">>>>),
    Block("paragraph", <<<<"t">>>>),
    Block("paragraph", <<<<"t", " ", "*", "*", "b", "*", "*">>>>),
    Block("bulletList", <<<<"-", " ", "a">>>>),
    Block("bulletList", <<<<"-", " ", "a">>, <<"*", " ", "b">>>>),
    Block("codeBlock", <<<<Backtick, Backtick, Backtick, "j", "s">>, <<"#", " ", "h">>, <<>>, <<"-", " ", "a">>, <<Backtick, Backtick, Backtick>>>>),
    Block("panel", <<<<">", " ", IconInfo, " ", "*", "*", "I", "n", "f", "o", ":", "*", "*", " ", "x">>>>) }

BlocksText(blocks) ==
  Join([k \in 1..Len(blocks) |-> Join(blocks[k].lines, <<"\n">>)], <<"\n", "\n">>)

BlockInputs ==
  {[kind |-> "blocks", doc |-> <<>>, meta |-> NoMetadata, blocks |-> bs,
    text |-> BlocksText(bs), pageIdFromFilename |-> <<>>, spaceKey |-> <<>>] :
     bs \in NonEmptySeqs(BlockShapes, MaxBlocks)}

\* bodies of a front-matter block
YamlBodies ==
  { <<"p", "a", "g", "e", "I", "d", ":", " ", "\"", "1", "2", "3", "\"">>,
    <<"t", "i", "t", "l", "e", ":", " ", "T">>,
    <<"p", "a", "g", "e", "I", "d", ":", " ", "1", "2", "3">>,
    <<"p", "a", "g", "e", "I", "d", ":", " ", "\"", "1", "2", "3">>,
    <<"a", ":", " ", "b", ":", " ", "c">>,
    <<"t", "e", "x", "t">>,
    <<>> }

FrontMatterTexts ==
  {<<"-", "-", "-", "\n">> \o b \o <<"\n", "-", "-", "-", "\n">> \o c :
     b \in YamlBodies, c \in {<<>>, <<"\n">> \o <<"#", " ", "h">>}}
  \union {<<"-", "-", "-", "\n">> \o b \o <<"\n", "-", "-", "-">> : b \in YamlBodies}
  \union {<<"#", " ", "h">>, <<>>}

FrontMatterInputs == {TextInput("frontmatter", t) : t \in FrontMatterTexts}

\* texts with '---' lines at the places the front-matter detection tells apart
FenceTexts ==
  LET fence == <<"-", "-", "-">>
      entry == <<"t", "i", "t", "l", "e", ":", " ", "T">>
  IN  { Join(ls, <<"\n">>) :
          ls \in { <<fence, fence, <<>>>>,
                   <<fence, fence, <<"t">>>>,
                   <<fence, <<"t">>>>,
                   <<fence, <<>>, fence, <<"t">>>>,
                   <<fence, entry, fence, fence, <<"t">>>>,
                   <<fence, entry, fence, <<>>, <<"t">>, fence, <<>>>>,
                   <<fence, entry, <<" ">> \o fence, <<"t">>>>,
                   <<fence, entry, fence \o <<" ">>, <<"t">>>>,
                   <<fence, entry, <<"t">>, fence>>,
                   <<fence \o <<" ">>, entry, fence, <<"t">>>>,
                   <<<<"t">>, fence, entry, fence, <<"t">>>> } }

FenceInputs == {TextInput("fences", t) : t \in FenceTexts}

\* lines of lists: items of both kinds, an item with marked text, a marker with
\* nothing after it, a blank line, a line of text; and longer texts with
\* whitespace-only lines and numbers of several digits
MaxListLines == 3

ListLineShapes ==
  { <<"-", " ", "a">>,
    <<"*", " ", "*", "b", "*">>,
    <<"1", ".", " ", "c">>,
    <<"-", " ">>,
    <<>>,
    <<"t">> }

LongListTexts ==
  { Join(ls, <<"\n">>) :
      ls \in { <<<<"1", "0", ".", " ", "d">>, <<" ", " ">>, <<"1", ".", " ", "c">>>>,
               <<<<"-", " ", "a">>, <<>>, <<" ", " ">>, <<"*", " ", "b">>, <<"t">>>>,
               <<<<"9", ".", " ", "a">>, <<"1", "0", ".", " ", "b">>, <<"-", " ", "c">>, <<>>>>,
               <<<<"-", " ", "a">>, <<"-", " ">>, <<"-", " ", "c">>>> } }

ListLineInputs ==
  {TextInput("listlines", Join(ls, <<"\n">>)) : ls \in NonEmptySeqs(ListLineShapes, MaxListLines)}
    \union {TextInput("listlines", t) : t \in LongListTexts}

\* code blocks whose body lines look like blocks of other kinds, are blank or
\* start with whitespace, alone and next to a paragraph
MaxCodeLines == 2

CodeLineShapes ==
  { <<"#", " ", "h">>,
    <<"-", " ", "a">>,
    <<">", " ", "q">>,
    <<"|", " ", "a", " ", "|">>,
    <<"-", "-", "-">>,
    <<>>,
    <<" ", " ", "x", " ">>,
    <<" ", Backtick, Backtick, Backtick>> }

CodeBodies == {Join(ls, <<"\n">>) : ls \in NonEmptySeqs(CodeLineShapes, MaxCodeLines)}

CodeInputs ==
  LET para == Para(<<PlainText(<<"a">>)>>)
  IN  {TreeInput("code", <<CodeBlock(<<"j", "s">>, b)>> \o after, NoMetadata) :
         b \in CodeBodies, after \in {<<>>, <<para>>}}
      \union
      {TreeInput("code", before \o <<CodeBlockNoLanguage(b)>>, NoMetadata) :
         b \in CodeBodies, before \in {<<>>, <<para>>}}

\* single-line texts given to parseInlineMarkdown: every text of up to
\* MaxInlineLen characters of the alphabet, and longer texts with matched,
\* unmatched and nested delimiters
MaxInlineLen == 3
MaxTokens == 12

InlineAlphabet == {"a", "*", Backtick, "[", "]", "~"}

ShortInlineTexts ==
  {<<>>} \union UNION {[1..n -> InlineAlphabet] : n \in 1..MaxInlineLen}

LongInlineTexts ==
  { <<"*", "*", "*", "x", "*", "*", "*">>,
    <<"*", "*", "a", " ", "*", "b", "*", " ", "c", "*", "*">>,
    <<"*", "*", "a", "*", "*", "b">>,
    <<"*", "*", "a", "*", "b", "*", "*">>,
    <<"*", "*", "a", "*">>,
    <<"a", " ", "*", "*", " ", "b", " ", "*", "*">>,
    <<"[", "x", "]", "(", "u", ")">>,
    <<"[", "x", "]", "(", "u", ")", ")">>,
    <<"[", "x", "]", "(", ")">>,
    <<"[", "x", "]", " ", "(", "u", ")">>,
    <<"[", "[", "x", "]", "(", "u", ")">>,
    <<"[", "*", "x", "*", "]", "(", "u", ")">>,
    <<"~", "~", "s", "~", "~", "~">>,
    <<"~", "~", "s", "~">>,
    <<"~", "~", "~", "~">>,
    <<Backtick, "*", "a", "*", Backtick, " ", "~", "b", "~">>,
    <<Backtick, Backtick, "c", Backtick, Backtick>>,
    <<" ", "*", "a", "*", " ">>,
    <<"(", "a", ")", "[", "b", "]">>,
    <<"[", "a", "]", "(", "(", "u", ")">> }

InlineInputs == {TextInput("inline", t) : t \in ShortInlineTexts \union LongInlineTexts}

\* documents of horizontal rules and paragraphs, serialized without metadata
MaxRuleBlocks == 4

RuleBlocks ==
  { Rule,
    Para(<<PlainText(<<"a">>)>>),
    Para(<<PlainText(<<"t", "i", "t", "l", "e", ":", " ", "T">>)>>) }

RuleInputs ==
  {TreeInput("rules", d, NoMetadata) : d \in NonEmptySeqs(RuleBlocks, MaxRuleBlocks)}

\* documents with one blockquote of single-line paragraphs: alone, first,
\* between two blocks and last
Blockquote(children) == [type |-> "blockquote", content |-> children]

Blockquotes ==
  { Blockquote(<<Para(<<PlainText(<<"a">>)>>)>>),
    Blockquote(<<Para(<<PlainText(<<"a">>)>>), Para(<<PlainText(<<"b", " ", "c">>)>>)>>),
    Blockquote(<<Para(<<MarkedText(<<"a">>, <<Mark("strong")>>), PlainText(<<" ", "b">>)>>)>>) }

QuoteInputs ==
  LET around == {<<>>, <<Para(<<PlainText(<<"t">>)>>)>>, <<Heading(1, <<PlainText(<<"h">>)>>)>>}
  IN  {TreeInput("quotes", before \o <<q>> \o after, NoMetadata) :
         q \in Blockquotes, before \in around, after \in around}

\* heading lines: 1..6 '#', one space, a text without outer whitespace
MaxHeadingLines == 2

HeadingLevels == 1..6
HeadingTexts == {<<"h">>, <<"a", " ", "*", "b", "*">>}

HeadingLineOf(h) == [k \in 1..h.level |-> "#"] \o <<" ">> \o h.text

HeadingInputs ==
  {[kind |-> "headings", doc |-> <<>>, meta |-> NoMetadata, blocks |-> hs,
    text |-> Join([k \in 1..Len(hs) |-> HeadingLineOf(hs[k])], <<"\n", "\n">>),
    pageIdFromFilename |-> <<>>, spaceKey |-> <<>>] :
     hs \in NonEmptySeqs([level : HeadingLevels, text : HeadingTexts], MaxHeadingLines)}

\* the empty string and texts of blank and whitespace-only lines
MaxBlankLines == 3

BlankLineShapes == {<<>>, <<" ", " ">>, <<"\t">>}

BlankInputs ==
  {TextInput("blank", Join(ls, <<"\n">>)) : ls \in NonEmptySeqs(BlankLineShapes, MaxBlankLines)}

\* the inputs whose parsed document the caller serializes again
TextRoundTripKinds == {"headings", "blank"}

\* calls of FileManager.createManagedFile: whether <cwd>/confluence-downloads
\* exists, the configured baseDirectory and the targetDir argument
NotSet == "undefined"
CwdDownloads == "<cwd>/confluence-downloads"
HomeDownloads == "<home>/confluence-downloads"

NoFileManagerCall ==
  [cwdExists |-> FALSE, baseDirectory |-> NotSet, targetDir |-> NotSet,
   baseDir |-> NotSet, ensured |-> {}]

FileManagerCalls ==
  {[NoFileManagerCall EXCEPT !.cwdExists = e, !.baseDirectory = b, !.targetDir = t] :
     e \in BOOLEAN, b \in {NotSet, "/configured"}, t \in {NotSet, "/target"}}

StorageInputs == {TextInput("storage", <<>>)}

PageIds == {<<>>, <<"7">>}
SpaceKeys == {<<>>, <<"S">>}

UploadInputs ==
  {[kind |-> "upload", doc |-> <<>>, meta |-> NoMetadata, blocks |-> <<>>, text |-> t,
    pageIdFromFilename |-> p, spaceKey |-> k] :
     t \in FrontMatterTexts, p \in PageIds, k \in SpaceKeys}

(***************************************************************************)
(* The state machine.  pc is the position of the running call:             *)
(*   "tree"   adfToMarkdown is about to be called on input.doc             *)
(*   "upload" the upload handler has been entered                          *)
(*   "text"   markdownToADF is about to be called on markdown              *)
(*   "loop"   markdownToADF is in its cursor loop                          *)
(*   "done"   markdownToADF returned {adf: nodes, metadata}                *)
(*   "threw"  markdownToADF raised the decode error of yaml.parse          *)
(*   "hung"   a nested markdownToADF call never returns                    *)
(*   "rendered" adfToMarkdown returned for the document markdownToADF gave *)
(*   "finished" the upload handler returned or raised                      *)
(*   "inline" parseInlineMarkdown is running on input.text; markdown is    *)
(*            its local remaining and nodes its local nodes                *)
(*   "tokens" parseInlineMarkdown returned nodes                           *)
(* last records the cursor given to the latest parseNode call, the         *)
(* nextIndex it returned and nodes.length before the call.                 *)
(***************************************************************************)
\* the OAuth client is not used by the converter, the upload handler's conversion
\* or the FileManager
OAuthUnused ==
  /\ now = 0
  /\ storage = "none"
  /\ clients = <<>>
  /\ listener = "none"
  /\ promises = <<>>
  /\ tools = "idle"
  /\ obs = "none"

Inputs ==
  RoundTripInputs \union PanelInputs \union MarkInputs \union TableInputs
    \union MetaInputs \union LineInputs \union TableLineInputs \union BlockInputs
    \union FrontMatterInputs \union UploadInputs \union HeadingInputs \union BlankInputs
    \union StorageInputs \union FenceInputs \union ListLineInputs \union CodeInputs
    \union InlineInputs \union RuleInputs \union QuoteInputs

Idle ==
  [state |-> "idle", calls |-> <<>>, wroteMetadata |-> FALSE, renamed |-> FALSE,
   converted |-> FALSE, existingPageId |-> <<>>]

Init ==
  /\ input \in Inputs
  /\ pc = CASE input.kind \in TreeKinds -> "tree"
            [] input.kind = "upload" -> "upload"
            [] input.kind = "storage" -> "storage"
            [] input.kind = "inline" -> "inline"
            [] OTHER -> "text"
  /\ markdown = IF input.kind \in TreeKinds \union {"upload", "storage"} THEN <<>>
                ELSE input.text
  /\ lines = <<>>
  /\ i = 0
  /\ nodes = <<>>
  /\ metadata = NoMetadata
  /\ last = [start |-> -1, nextIndex |-> 0, before |-> 0]
  /\ upload = Idle
  /\ fileManager \in IF input.kind = "storage" THEN FileManagerCalls ELSE {NoFileManagerCall}
  /\ OAuthUnused

\* a caller serializes input.doc with input.meta
AdfToMarkdown ==
  /\ pc = "tree"
  /\ markdown' = adfToMarkdown(input.doc, input.meta)
  /\ pc' = "text"
  /\ UNCHANGED <<input, lines, i, nodes, metadata, last, upload>>
  /\ UNCHANGED <<fileManager, oauthVars>>

\* MarkdownToADF with the decode error caught and the metadata left undefined
MarkdownToADFSwallowsError ==
  /\ pc = "text"
  /\ \E fm \in {FrontMatter(markdown)} :
       /\ pc' = "loop"
       /\ metadata' = IF fm.metadata.kind = "error" THEN NoMetadata ELSE fm.metadata
       /\ lines' = Split(fm.content, "\n")
       /\ i' = 0
       /\ nodes' = <<>>
  /\ UNCHANGED <<input, markdown, last, upload>>
  /\ UNCHANGED <<fileManager, oauthVars>>

\* markdownToADF up to the cursor loop: front-matter detection and split
MarkdownToADF ==
  /\ pc = "text"
  /\ \E fm \in {FrontMatter(markdown)} :
       IF fm.metadata.kind = "error"
       THEN /\ pc' = "threw"
            /\ UNCHANGED <<lines, i, nodes, metadata>>
       ELSE /\ pc' = "loop"
            /\ metadata' = fm.metadata
            /\ lines' = Split(fm.content, "\n")
            /\ i' = 0
            /\ nodes' = <<>>
  /\ UNCHANGED <<input, markdown, last, upload>>
  /\ UNCHANGED <<fileManager, oauthVars>>

\* ParseStep without the test if (result.node)
ParseStepPushesNull ==
  /\ pc = "loop"
  /\ i < Len(lines)
  /\ Len(nodes) < MaxNodes
  /\ \E result \in {parseNode(lines, i)} :
       IF result.status = "ok"
       THEN /\ nodes' = Append(nodes, result.node)
            /\ i' = result.nextIndex
            /\ last' = [start |-> i, nextIndex |-> result.nextIndex, before |-> Len(nodes)]
            /\ pc' = "loop"
       ELSE /\ pc' = IF result.status = "throw" THEN "threw" ELSE "hung"
            /\ UNCHANGED <<nodes, i, last>>
  /\ UNCHANGED <<input, markdown, lines, metadata, upload>>
  /\ UNCHANGED <<fileManager, oauthVars>>

\* one iteration of while (i < lines.length)
ParseStep ==
  /\ pc = "loop"
  /\ i < Len(lines)
  /\ Len(nodes) < MaxNodes
  /\ \E result \in {parseNode(lines, i)} :
       IF result.status = "ok"
       THEN /\ nodes' = IF result.node # NullNode THEN Append(nodes, result.node) ELSE nodes
            /\ i' = result.nextIndex
            /\ last' = [start |-> i, nextIndex |-> result.nextIndex, before |-> Len(nodes)]
            /\ pc' = "loop"
       ELSE /\ pc' = IF result.status = "throw" THEN "threw" ELSE "hung"
            /\ UNCHANGED <<nodes, i, last>>
  /\ UNCHANGED <<input, markdown, lines, metadata, upload>>
  /\ UNCHANGED <<fileManager, oauthVars>>

\* return { adf: {version: 1, type: "doc", content: nodes}, ...(metadata && { metadata }) }
Return ==
  /\ pc = "loop"
  /\ i >= Len(lines)
  /\ pc' = "done"
  /\ metadata' = IF MetadataTruthy(metadata) THEN metadata ELSE NoMetadata
  /\ UNCHANGED <<input, markdown, lines, i, nodes, last, upload>>
  /\ UNCHANGED <<fileManager, oauthVars>>

\* a caller serializes the document markdownToADF returned: adfToMarkdown(result.adf)
Reserialize ==
  /\ pc = "done"
  /\ input.kind \in TextRoundTripKinds
  /\ markdown' = adfToMarkdown(nodes, NoMetadata)
  /\ pc' = "rendered"
  /\ UNCHANGED <<input, lines, i, nodes, metadata, last, upload>>
  /\ UNCHANGED <<fileManager, oauthVars>>

(***************************************************************************)
(* parseInlineMarkdown and inlineToMarkdown called on a single-line text.  *)
(***************************************************************************)
\* one iteration of while (remaining.length > 0)
ParseInlineStep ==
  /\ pc = "inline"
  /\ Len(markdown) > 0
  /\ Len(nodes) < MaxTokens
  /\ \E iteration \in {InlineIteration(markdown)} :
       /\ nodes' = Append(nodes, iteration.node)
       /\ markdown' = SubstringFrom(markdown, iteration.length)
  /\ pc' = "inline"
  /\ UNCHANGED <<input, lines, i, metadata, last, upload>>
  /\ UNCHANGED <<fileManager, oauthVars>>

\* if (!text) return []; return nodes.length > 0 ? nodes : [{type: 'text', text}]
ParseInlineReturn ==
  /\ pc = "inline"
  /\ Len(markdown) = 0
  /\ nodes' = IF input.text = <<>> THEN <<>>
              ELSE IF Len(nodes) > 0 THEN nodes
              ELSE <<PlainText(input.text)>>
  /\ pc' = "tokens"
  /\ UNCHANGED <<input, markdown, lines, i, metadata, last, upload>>
  /\ UNCHANGED <<fileManager, oauthVars>>

\* a caller renders the nodes parseInlineMarkdown returned: inlineToMarkdown(nodes)
InlineToMarkdown ==
  /\ pc = "tokens"
  /\ markdown' = inlineToMarkdown(nodes)
  /\ pc' = "rendered"
  /\ UNCHANGED <<input, lines, i, nodes, metadata, last, upload>>
  /\ UNCHANGED <<fileManager, oauthVars>>

(***************************************************************************)
(* The upload handler (confluence_upload_page).                            *)
(***************************************************************************)
ToolError(calls, converted, existingPageId) ==
  [state |-> "ToolError", calls |-> calls, wroteMetadata |-> FALSE, renamed |-> FALSE,
   converted |-> converted, existingPageId |-> existingPageId]

\* the handler's return value, with the client calls made before it
Returned(calls, existingPageId, wroteMetadata, renamed) ==
  [state |-> "returned", calls |-> calls, wroteMetadata |-> wroteMetadata,
   renamed |-> renamed, converted |-> TRUE, existingPageId |-> existingPageId]

\* (metadata as FileMetadata)?.pageId, <<>> when absent or falsy
MetadataPageId(m) ==
  IF m.kind # "map" THEN <<>>
  ELSE LET hits == {k \in 1..Len(m.entries) :
                      m.entries[k].key = <<"p", "a", "g", "e", "I", "d">>}
       IN  IF hits = {} THEN <<>>
           ELSE LET v == m.entries[Min(hits)].value
                IN  IF v.t = "num" /\ \A k \in 1..Len(v.v) : v.v[k] = "0" THEN <<>> ELSE v.v

\* the handler up to the call of markdownToADF
UploadStart ==
  /\ pc = "upload"
  /\ \E authenticated, exists \in BOOLEAN :
       IF authenticated /\ exists
       THEN /\ markdown' = input.text
            /\ pc' = "text"
            /\ upload' = [upload EXCEPT !.state = "converting"]
       ELSE /\ pc' = "finished"
            /\ upload' = ToolError(<<>>, FALSE, <<>>)
            /\ UNCHANGED markdown
  /\ UNCHANGED <<input, lines, i, nodes, metadata, last>>
  /\ UNCHANGED <<fileManager, oauthVars>>

\* ExistingPageId with the front-matter pageId tried first
ExistingPageIdMetadataFirst(pageIdFromFilename, m) ==
  IF MetadataPageId(m) # <<>> THEN MetadataPageId(m) ELSE pageIdFromFilename

\* pageIdFromFilename || (metadata as FileMetadata)?.pageId
ExistingPageId(pageIdFromFilename, m) ==
  IF pageIdFromFilename # <<>> THEN pageIdFromFilename ELSE MetadataPageId(m)

\* the handler from the return (or the exception) of markdownToADF to its end
UploadFinish ==
  /\ upload.state = "converting"
  /\ pc \in {"done", "threw"}
  /\ pc' = "finished"
  /\ IF pc = "threw" THEN upload' = ToolError(<<>>, FALSE, <<>>)
     ELSE LET pageIdFromFilename == input.pageIdFromFilename
              existingPageId == ExistingPageId(pageIdFromFilename, metadata)
          IN  IF existingPageId # <<>>
              THEN \E getOk, updateOk, metaFile \in BOOLEAN :
                     upload' =
                       IF ~getOk THEN ToolError(<<"getContent">>, TRUE, existingPageId)
                       ELSE IF ~updateOk
                       THEN ToolError(<<"getContent", "updateContent">>, TRUE, existingPageId)
                       ELSE Returned(<<"getContent", "updateContent">>, existingPageId,
                                     metaFile, FALSE)
              ELSE IF input.spaceKey = <<>> THEN upload' = ToolError(<<>>, TRUE, <<>>)
              ELSE \E createOk \in BOOLEAN :
                     upload' =
                       IF ~createOk THEN ToolError(<<"createContent">>, TRUE, <<>>)
                       ELSE Returned(<<"createContent">>, <<>>,
                                     pageIdFromFilename = <<>>, pageIdFromFilename = <<>>)
  /\ UNCHANGED <<input, markdown, lines, i, nodes, metadata, last>>
  /\ UNCHANGED <<fileManager, oauthVars>>

(***************************************************************************)
(* FileManager.createManagedFile and the base directory it picks.          *)
(***************************************************************************)
\* FileManager.getBaseDirectory: the directory returned, and whether it was
\* created (fs.ensureDirSync) on the way
getBaseDirectory(cwdExists, baseDirectory) ==
  IF cwdExists \/ baseDirectory = NotSet
  THEN [path |-> CwdDownloads, ensured |-> {CwdDownloads}]
  ELSE IF baseDirectory # NotSet
  THEN [path |-> baseDirectory, ensured |-> {}]
  ELSE [path |-> HomeDownloads, ensured |-> {HomeDownloads}]

\* const baseDir = targetDir || this.getBaseDirectory(); await fs.ensureDir(baseDir)
CreateManagedFile ==
  /\ pc = "storage"
  /\ pc' = "finished"
  /\ \E picked \in {IF fileManager.targetDir # NotSet
                     THEN [path |-> fileManager.targetDir, ensured |-> {}]
                     ELSE getBaseDirectory(fileManager.cwdExists, fileManager.baseDirectory)} :
       fileManager' = [fileManager EXCEPT !.baseDir = picked.path,
                        !.ensured = picked.ensured \union {picked.path}]
  /\ UNCHANGED <<input, markdown, lines, i, nodes, metadata, last, upload>>
  /\ UNCHANGED oauthVars

Next ==
  \/ AdfToMarkdown \/ MarkdownToADF \/ ParseStep \/ Return \/ Reserialize
  \/ ParseInlineStep \/ ParseInlineReturn \/ InlineToMarkdown
  \/ UploadStart \/ UploadFinish
  \/ CreateManagedFile

Spec == Init /\ [][Next]_vars

(***************************************************************************)
(* OAuthClient (src/src/auth/oauth-client.ts), the token storage it        *)
(* persists to (src/src/auth/token-storage.ts) and the OAuth tools         *)
(* (src/src/tools/oauth.ts).  Times are milliseconds as Date.now() gives   *)
(* them.  A value that may be null is a record with a `present' field, a   *)
(* string that may be null is the string Null, and a resolver that may be  *)
(* null is 0 or the index of its promise.  Every await of the source is a  *)
(* point where other steps interleave.                                     *)
(***************************************************************************)
\* clock ticks taken
MaxTicks == 1
\* method calls made by the code that holds the client
MaxCalls == 3

Null == "null"
\* expires_in of a token response, in seconds
ExpiresIn == 3600
\* ensureValidToken and isTokenExpired refresh this many seconds early
RefreshEarly == 300
\* the delay of waitForAuthCompletion's setTimeout
AuthTimeoutMs == 300000
TickMs == ExpiresIn * 1000
\* Date.now() when the process starts: far from the epoch
StartTime == 3 * TickMs

NoTokens == [present |-> FALSE]
NoState == [present |-> FALSE]
NoStoredData == [present |-> FALSE]

\* an OAuthTokens response received at time t
OAuthTokens(t) ==
  [present |-> TRUE, refresh_token |-> TRUE, expires_in |-> ExpiresIn, issued |-> t]

\* an OAuthState made at time t
OAuthState(s, t) == [present |-> TRUE, state |-> s, timestamp |-> t]

ClientIds == {"oauthClient", "globalOAuthClient"}
NotConstructed == [constructed |-> FALSE]

\* what tokenStorage.store writes
StoredTokenData(tokens, cloudId, domainUrl, oauthState, t) ==
  [present |-> TRUE, tokens |-> tokens, cloudId |-> cloudId, domainUrl |-> domainUrl,
   oauthState |-> oauthState, lastUpdated |-> t]

\* what an earlier run of the server left in the storage: nothing, or the
\* data of an authorization stored just now or one token lifetime ago
StoredAt(t, refresh_token) ==
  StoredTokenData([OAuthTokens(t) EXCEPT !.refresh_token = refresh_token],
                  "cloud", "https://site", OAuthState(0, t), t)
StoredByEarlierRun ==
  {NoStoredData, StoredAt(StartTime, TRUE), StoredAt(StartTime - TickMs, TRUE),
   StoredAt(StartTime - TickMs, FALSE)}

\* TokenStorage.isTokenExpired
isTokenExpired(data, t) ==
  IF ~data.tokens.present \/ data.lastUpdated = 0 THEN TRUE
  ELSE t - data.lastUpdated > (data.tokens.expires_in - RefreshEarly) * 1000

\* a loadTokens() call that waits for tokenStorage.retrieve()
LoadRetrieving == [at |-> "retrieve", storedData |-> NoStoredData]

\* new OAuthClient(credentials): the field initializers, and the constructor's
\* loadTokens() call, which runs up to its first await
NewOAuthClient ==
  [constructed |-> TRUE, tokens |-> NoTokens, cloudId |-> Null, domainUrl |-> Null,
   oauthState |-> NoState, callbackServer |-> Null, authCompletionResolver |-> 0,
   isLoaded |-> FALSE, loads |-> {LoadRetrieving}, callback |-> Null,
   refreshing |-> FALSE, clearing |-> FALSE]

\* OAuthClient.saveTokens
saveTokens(c, t) == StoredTokenData(c.tokens, c.cloudId, c.domainUrl, c.oauthState, t)

\* calling a promise's resolve function: only the first call settles it
Resolve(ps, p, value) ==
  IF p = 0 \/ ps[p].settled # Null THEN ps
  ELSE [ps EXCEPT ![p].settled = value]

\* isAuthenticated() without its isLoaded test
isAuthenticatedIgnoresLoad(c) == c.tokens.present /\ c.cloudId # Null /\ c.domainUrl # Null

\* the expression isAuthenticated() returns
isAuthenticated(c) ==
  IF ~c.isLoaded THEN FALSE
  ELSE c.tokens.present /\ c.cloudId # Null /\ c.domainUrl # Null

\* getAuthHeaders, getCloudId and getDomainUrl throw
GettersThrow(c) == ~c.tokens.present /\ c.cloudId = Null /\ c.domainUrl = Null

\* the test of ensureValidToken
tokenExpired(c, t) ==
  LET timestamp == IF c.oauthState.present THEN c.oauthState.timestamp ELSE 0
      tokenAge == t - timestamp
  IN tokenAge > (c.tokens.expires_in - RefreshEarly) * 1000

\* the state of the OAuth tools module and of the code that drives a client
NoObservation == [called |-> Null]
OAuthStart(mode, provided) ==
  [mode |-> mode, redirectUri |-> provided, init |-> "idle", complete |-> "idle",
   result |-> 0]
\* what has been seen of a run: calls made by the holder of the client and
\* the value the last one returned, states generated for authorization URLs
\* (1..generated), whether clear() has resolved with no new tokens since,
\* whether a callback has ended with success since the last URL or clear(),
\* and, for the tools, whether the port was free at init, whether the user's
\* grant reached the callback server in time and whether Atlassian refused
Observations ==
  [calls |-> 0, generated |-> 0, cleared |-> FALSE, authorized |-> FALSE,
   last |-> NoObservation, portWasFree |-> FALSE, granted |-> FALSE, failed |-> FALSE]

\* the converter is not running while the OAuth tools are exercised
ConverterUnused ==
  /\ input = [kind |-> "oauth"]
  /\ pc = "oauth"
  /\ markdown = <<>>
  /\ lines = <<>>
  /\ i = 0
  /\ nodes = <<>>
  /\ metadata = NoMetadata
  /\ last = [start |-> -1, nextIndex |-> 0, before |-> 0]
  /\ upload = Idle
  /\ fileManager = NoFileManagerCall

\* either a unit under test holds one client (the beforeEach of the client's
\* tests), or the tools module is loaded with globalOAuthClient = null
OAuthInit ==
  /\ ConverterUnused
  /\ now = StartTime
  /\ storage \in StoredByEarlierRun
  /\ promises = <<>>
  /\ obs = Observations
  /\ \/ /\ tools = OAuthStart("class", TRUE)
        /\ clients = [c \in ClientIds |-> IF c = "oauthClient" THEN NewOAuthClient
                                          ELSE NotConstructed]
        /\ listener = Null
     \/ /\ \E provided \in BOOLEAN : tools = OAuthStart("tools", provided)
        /\ clients = [c \in ClientIds |-> NotConstructed]
        /\ listener \in IF tools.redirectUri THEN {Null, "other"} ELSE {Null}

Constructed == {c \in ClientIds : clients[c].constructed}

\* ---- steps the runtime takes on behalf of a client ----

\* tokenStorage.retrieve() reads the storage
LoadRetrieve(c) ==
  /\ c \in Constructed
  /\ LoadRetrieving \in clients[c].loads
  /\ clients' = [clients EXCEPT ![c].loads =
                   (@ \ {LoadRetrieving}) \union {[at |-> "apply", storedData |-> storage]}]
  /\ UNCHANGED <<now, storage, listener, promises, tools, obs>>
  /\ UNCHANGED <<converterVars, fileManager>>

\* loadTokens after `await tokenStorage.retrieve()'
loadTokens(c, task, t) ==
  LET data == task.storedData
      done == [c EXCEPT !.loads = @ \ {task}, !.isLoaded = TRUE]
  IN IF ~data.present THEN [client |-> done, clear |-> FALSE]
     ELSE IF isTokenExpired(data, t)
     THEN IF data.tokens.present /\ data.tokens.refresh_token
          THEN [client |-> [c EXCEPT !.tokens = data.tokens, !.cloudId = data.cloudId,
                                     !.domainUrl = data.domainUrl,
                                     !.loads = (@ \ {task})
                                        \union {[at |-> "refresh", storedData |-> data]}],
                clear |-> FALSE]
          ELSE [client |-> done, clear |-> TRUE]
     ELSE [client |-> [done EXCEPT !.tokens = data.tokens, !.cloudId = data.cloudId,
                                   !.domainUrl = data.domainUrl,
                                   !.oauthState = data.oauthState],
           clear |-> FALSE]

LoadApply(c) ==
  /\ c \in Constructed
  /\ \E task \in {l \in clients[c].loads : l.at = "apply"} :
       \E r \in {loadTokens(clients[c], task, now)} :
         /\ clients' = [clients EXCEPT ![c] = r.client]
         /\ storage' = IF r.clear THEN NoStoredData ELSE storage
  /\ UNCHANGED <<now, listener, promises, tools, obs>>
  /\ UNCHANGED <<converterVars, fileManager>>

\* refreshAccessToken after its fetch: the new tokens are kept and saved
refreshAccessToken(c, ok, t) == IF ok THEN [c EXCEPT !.tokens = OAuthTokens(t)] ELSE c

\* the refresh started by loadTokens answers; finally { isLoaded = true }
LoadRefreshed(c) ==
  /\ c \in Constructed
  /\ \E task \in {l \in clients[c].loads : l.at = "refresh"}, ok \in BOOLEAN :
       \E after \in {refreshAccessToken([clients[c] EXCEPT !.loads = @ \ {task},
                                                          !.isLoaded = TRUE], ok, now)} :
         /\ clients' = [clients EXCEPT ![c] = after]
         /\ storage' = IF ok THEN saveTokens(after, now) ELSE storage
         /\ obs' = [obs EXCEPT !.cleared = IF ok THEN FALSE ELSE @,
                               !.failed = @ \/ (tools.mode = "tools" /\ ~ok)]
  /\ UNCHANGED <<now, listener, promises, tools>>
  /\ UNCHANGED <<converterVars, fileManager>>

\* the refresh started by ensureValidToken answers
EnsureRefreshed(c) ==
  /\ c \in Constructed
  /\ clients[c].refreshing
  /\ \E ok \in BOOLEAN :
       \E after \in {refreshAccessToken([clients[c] EXCEPT !.refreshing = FALSE], ok, now)} :
         /\ clients' = [clients EXCEPT ![c] = after]
         /\ storage' = IF ok THEN saveTokens(after, now) ELSE storage
         /\ obs' = [obs EXCEPT !.cleared = IF ok THEN FALSE ELSE @,
                               !.failed = @ \/ (tools.mode = "tools" /\ ~ok)]
  /\ UNCHANGED <<now, listener, promises, tools>>
  /\ UNCHANGED <<converterVars, fileManager>>

\* tokenStorage.clear() finishes and clear() resolves
ClearDone(c) ==
  /\ c \in Constructed
  /\ clients[c].clearing
  /\ clients' = [clients EXCEPT ![c].clearing = FALSE]
  /\ storage' = NoStoredData
  /\ obs' = [obs EXCEPT !.cleared = TRUE]
  /\ UNCHANGED <<now, listener, promises, tools>>
  /\ UNCHANGED <<converterVars, fileManager>>

\* app.listen(port) of startCallbackServer: 'listening' when the port is free,
\* 'error' (EADDRINUSE) when a server already listens on it
Listen(c) ==
  /\ c \in Constructed
  /\ clients[c].callbackServer = "starting"
  /\ IF listener = Null
     THEN /\ listener' = c
          /\ clients' = [clients EXCEPT ![c].callbackServer = "listening"]
     ELSE /\ listener' = listener
          /\ clients' = [clients EXCEPT ![c].callbackServer = "error"]
  /\ UNCHANGED <<now, storage, promises, tools, obs>>
  /\ UNCHANGED <<converterVars, fileManager>>

\* no waitForAuthCompletion timer is due or has fired
NoWaitTimedOut == \A p \in DOMAIN promises : promises[p].timer = "armed"

NoStateParameter == -1

\* the queries GET /oauth/callback is called with: ?error= when the user refused,
\* a query without code, and a code with the state of an authorization URL that
\* was handed out: the latest one or the one before it in this run
\* (1..generated), or the one of the earlier run that left its data in the
\* storage (0)
CallbackRequests ==
  { [error |-> TRUE, code |-> FALSE, state |-> NoStateParameter],
    [error |-> FALSE, code |-> FALSE, state |-> obs.generated] }
  \union [error : {FALSE}, code : {TRUE},
          state : {0, obs.generated} \union ({obs.generated - 1} \cap (1..obs.generated))]

\* the handler of /oauth/callback of the server that listens on the redirect
\* port, up to its first await
OAuthCallback(c) ==
  /\ c \in Constructed
  /\ listener = c
  /\ clients[c].callback = Null
  /\ \E request \in CallbackRequests :
       LET client == clients[c]
           missing == ~request.code \/ request.state = NoStateParameter
           invalid == ~client.oauthState.present \/ request.state # client.oauthState.state
       IN /\ clients' = [clients EXCEPT ![c].callback =
                           IF request.error \/ missing \/ invalid THEN Null
                           ELSE "exchangeCodeForTokens"]
          /\ promises' = IF request.error
                         THEN Resolve(promises, client.authCompletionResolver, "error")
                         ELSE IF missing
                         THEN Resolve(promises, client.authCompletionResolver,
                                      "Missing authorization code or state")
                         ELSE IF invalid
                         THEN Resolve(promises, client.authCompletionResolver,
                                      "Invalid state parameter")
                         ELSE promises
          /\ obs' = [obs EXCEPT !.granted =
                        @ \/ (tools.mode = "tools" /\ request.code /\ request.state >= 1
                                /\ NoWaitTimedOut)]
  /\ UNCHANGED <<now, storage, listener, tools>>
  /\ UNCHANGED <<converterVars, fileManager>>

\* the token endpoint answers exchangeCodeForTokens; fetchCloudId follows
ExchangeResponse(c) ==
  /\ c \in Constructed
  /\ clients[c].callback = "exchangeCodeForTokens"
  /\ \E ok \in BOOLEAN :
       LET client == clients[c]
           after == [client EXCEPT !.tokens = OAuthTokens(now), !.callback = "fetchCloudId"]
       IN IF ok
          THEN /\ clients' = [clients EXCEPT ![c] = after]
               /\ storage' = saveTokens(after, now)
               /\ promises' = promises
               /\ obs' = [obs EXCEPT !.cleared = FALSE]
          ELSE /\ clients' = [clients EXCEPT ![c].callback = Null]
               /\ storage' = storage
               /\ promises' = Resolve(promises, client.authCompletionResolver, "error")
               /\ obs' = [obs EXCEPT !.failed = tools.mode = "tools"]
  /\ UNCHANGED <<now, listener, tools>>
  /\ UNCHANGED <<converterVars, fileManager>>

\* accessible-resources answers fetchCloudId; the handler resolves the waiter
ResourcesResponse(c) ==
  /\ c \in Constructed
  /\ clients[c].callback = "fetchCloudId"
  /\ \E ok \in BOOLEAN :
       LET client == clients[c]
           after == [client EXCEPT !.cloudId = "cloud", !.domainUrl = "https://site",
                                   !.callback = Null]
       IN IF ok
          THEN /\ clients' = [clients EXCEPT ![c] = after]
               /\ storage' = saveTokens(after, now)
               /\ promises' = Resolve(promises, client.authCompletionResolver, "success")
               /\ obs' = [obs EXCEPT !.cleared = FALSE, !.authorized = TRUE]
          ELSE /\ clients' = [clients EXCEPT ![c].callback = Null]
               /\ storage' = storage
               /\ promises' = Resolve(promises, client.authCompletionResolver, "error")
               /\ obs' = [obs EXCEPT !.failed = tools.mode = "tools"]
  /\ UNCHANGED <<now, listener, tools>>
  /\ UNCHANGED <<converterVars, fileManager>>

\* the timer of promise p is due by time t
TimerDue(p, t) == promises[p].timer = "armed" /\ t - promises[p].armedAt >= AuthTimeoutMs

\* the setTimeout callbacks of waitForAuthCompletion that are due by time t
\* have run: a promise is resolved only if the resolver is still its own
TimedOut(t) ==
  [p \in DOMAIN promises |->
     IF TimerDue(p, t)
     THEN [promises[p] EXCEPT
             !.timer = "fired",
             !.settled = IF clients[promises[p].client].authCompletionResolver = p
                            /\ @ = Null
                         THEN "Authentication timeout" ELSE @]
     ELSE promises[p]]

\* ... and reset the resolver they found to be their own
ResolversTimedOut(t) ==
  [c \in ClientIds |->
     IF clients[c].constructed /\ clients[c].authCompletionResolver # 0
        /\ TimerDue(clients[c].authCompletionResolver, t)
     THEN [clients[c] EXCEPT !.authCompletionResolver = 0]
     ELSE clients[c]]

\* no storage access, HTTP request or listen of the client is under way
Quiescent(c) ==
  /\ c.loads = {} /\ ~c.clearing /\ ~c.refreshing
  /\ c.callback = Null /\ c.callbackServer # "starting"

\* time passes: an hour at a time, in which every pending I/O completes
\* and every timer that falls due runs before anything else happens
Tick ==
  /\ now < StartTime + MaxTicks * TickMs
  /\ \A c \in Constructed : Quiescent(clients[c])
  /\ now' = now + TickMs
  /\ promises' = TimedOut(now')
  /\ clients' = ResolversTimedOut(now')
  /\ UNCHANGED <<storage, listener, tools, obs>>
  /\ UNCHANGED <<converterVars, fileManager>>

\* ---- the methods of OAuthClient ----

\* generateAuthUrl: a fresh state s, stamped with Date.now()
generateAuthUrl(c, s, t) == [c EXCEPT !.oauthState = OAuthState(s, t)]

\* startCallbackServer up to app.listen
startCallbackServer(c) == [c EXCEPT !.callbackServer = "starting"]

\* stopCallbackServer
stopCallbackServer(c) == [c EXCEPT !.callbackServer = Null]

\* the port after c.stopCallbackServer(): close() frees it when c's server held it
PortAfterStop(c) ==
  IF clients[c].callbackServer = "listening" /\ listener = c THEN Null ELSE listener

\* waitForAuthCompletion: the new promise's resolve function replaces the resolver
waitForAuthCompletion(c, p) == [c EXCEPT !.authCompletionResolver = p]

\* the promise waitForAuthCompletion returns, and its timer
AuthCompletion(c, t) ==
  [client |-> c, settled |-> Null, timer |-> "armed", armedAt |-> t,
   authorized |-> obs.authorized]

\* clear() up to `await tokenStorage.clear()'
clear(c) ==
  [stopCallbackServer(c) EXCEPT !.tokens = NoTokens, !.cloudId = Null, !.domainUrl = Null,
                                !.oauthState = NoState, !.authCompletionResolver = 0,
                                !.clearing = TRUE]

\* deserialize(data)
deserialize(c, parsed) ==
  [c EXCEPT !.tokens = parsed.tokens, !.cloudId = parsed.cloudId,
            !.domainUrl = parsed.domainUrl, !.oauthState = parsed.oauthState,
            !.isLoaded = TRUE]

\* the strings the client's tests hand to deserialize
SerializedStates(t) ==
  {[tokens |-> OAuthTokens(t), cloudId |-> cloud, domainUrl |-> "https://site",
    oauthState |-> NoState] : cloud \in {"cloud", Null}}

\* ---- the code that holds a client calls its methods, in any order ----
\* (it awaits clear() and startCallbackServer() before its next call)
Caller(c) ==
  /\ tools.mode = "class"
  /\ c = "oauthClient"
  /\ obs.calls < MaxCalls
  /\ ~clients[c].clearing
  /\ clients[c].callbackServer # "starting"

\* the observations after one more call, which returned value
CallMade(value) == [obs EXCEPT !.calls = @ + 1, !.last = value]

GenerateAuthUrl(c) ==
  /\ Caller(c)
  /\ clients' = [clients EXCEPT ![c] = generateAuthUrl(@, obs.generated + 1, now)]
  /\ obs' = [CallMade(NoObservation) EXCEPT !.generated = @ + 1, !.authorized = FALSE]
  /\ UNCHANGED <<now, storage, listener, promises, tools>>
  /\ UNCHANGED <<converterVars, fileManager>>

StartCallbackServer(c) ==
  /\ Caller(c)
  /\ clients[c].callbackServer = Null
  /\ clients' = [clients EXCEPT ![c] = startCallbackServer(@)]
  /\ obs' = CallMade(NoObservation)
  /\ UNCHANGED <<now, storage, listener, promises, tools>>
  /\ UNCHANGED <<converterVars, fileManager>>

StopCallbackServer(c) ==
  /\ Caller(c)
  /\ clients[c].callbackServer # Null
  /\ clients' = [clients EXCEPT ![c] = stopCallbackServer(@)]
  /\ listener' = PortAfterStop(c)
  /\ obs' = CallMade(NoObservation)
  /\ UNCHANGED <<now, storage, promises, tools>>
  /\ UNCHANGED <<converterVars, fileManager>>

WaitForAuthCompletion(c) ==
  /\ Caller(c)
  /\ promises' = Append(promises, AuthCompletion(c, now))
  /\ clients' = [clients EXCEPT ![c] = waitForAuthCompletion(@, Len(promises) + 1)]
  /\ obs' = CallMade(NoObservation)
  /\ UNCHANGED <<now, storage, listener, tools>>
  /\ UNCHANGED <<converterVars, fileManager>>

Clear(c) ==
  /\ Caller(c)
  /\ clients' = [clients EXCEPT ![c] = clear(@)]
  /\ listener' = PortAfterStop(c)
  /\ obs' = [CallMade(NoObservation) EXCEPT !.authorized = FALSE]
  /\ UNCHANGED <<now, storage, promises, tools>>
  /\ UNCHANGED <<converterVars, fileManager>>

Deserialize(c) ==
  /\ Caller(c)
  /\ \E parsed \in SerializedStates(now) :
       clients' = [clients EXCEPT ![c] = deserialize(@, parsed)]
  /\ obs' = [CallMade(NoObservation) EXCEPT !.cleared = FALSE]
  /\ UNCHANGED <<now, storage, listener, promises, tools>>
  /\ UNCHANGED <<converterVars, fileManager>>

\* isAuthenticated(): before the load has finished it starts another load
\* (fire and forget) and answers false
IsAuthenticated(c) ==
  /\ Caller(c)
  /\ clients' = [clients EXCEPT ![c].loads =
                   IF clients[c].isLoaded THEN @ ELSE @ \union {LoadRetrieving}]
  /\ obs' = CallMade([called |-> "isAuthenticated", returned |-> isAuthenticated(clients[c])])
  /\ UNCHANGED <<now, storage, listener, promises, tools>>
  /\ UNCHANGED <<converterVars, fileManager>>

\* ensureValidToken(), called once the stored tokens have been loaded, so
\* that its `await this.loadTokens()' returns at once: it throws without
\* tokens, else it starts a refresh if its test says so
EnsureValidToken(c) ==
  /\ Caller(c)
  /\ clients[c].isLoaded
  /\ ~clients[c].refreshing
  /\ LET client == clients[c]
         refresh == client.tokens.present /\ tokenExpired(client, now)
                    /\ client.tokens.refresh_token
     IN /\ clients' = [clients EXCEPT ![c].refreshing = refresh]
        /\ obs' = CallMade([called |-> "ensureValidToken",
                            threw |-> ~client.tokens.present, refreshed |-> refresh])
  /\ UNCHANGED <<now, storage, listener, promises, tools>>
  /\ UNCHANGED <<converterVars, fileManager>>

\* ---- the handlers of src/src/tools/oauth.ts ----

\* confluence_oauth_init up to `await oauthClient.startCallbackServer()'
OAuthInitTool ==
  /\ tools.mode = "tools"
  /\ tools.init = "idle"
  /\ clients' = [clients EXCEPT !["oauthClient"] = startCallbackServer(NewOAuthClient)]
  /\ tools' = [tools EXCEPT !.init = "port"]
  /\ obs' = [obs EXCEPT !.portWasFree = listener = Null]
  /\ UNCHANGED <<now, storage, listener, promises>>
  /\ UNCHANGED <<converterVars, fileManager>>

\* ... the port is known: globalOAuthClient = new OAuthClient(...), up to
\* `await globalOAuthClient.startCallbackServer()'; a rejection is the ToolError
OAuthInitPort ==
  /\ tools.init = "port"
  /\ clients["oauthClient"].callbackServer \in {"listening", "error"}
  /\ IF clients["oauthClient"].callbackServer = "listening"
     THEN /\ clients' = [clients EXCEPT !["globalOAuthClient"] =
                           startCallbackServer(NewOAuthClient)]
          /\ tools' = [tools EXCEPT !.init = "global"]
     ELSE /\ clients' = clients
          /\ tools' = [tools EXCEPT !.init = "error"]
  /\ UNCHANGED <<now, storage, listener, promises, obs>>
  /\ UNCHANGED <<converterVars, fileManager>>

\* ... the second server answered: generateAuthUrl() and the success text,
\* or the ToolError
OAuthInitGlobal ==
  /\ tools.init = "global"
  /\ clients["globalOAuthClient"].callbackServer \in {"listening", "error"}
  /\ IF clients["globalOAuthClient"].callbackServer = "listening"
     THEN /\ clients' = [clients EXCEPT !["globalOAuthClient"] =
                           generateAuthUrl(@, obs.generated + 1, now)]
          /\ obs' = [obs EXCEPT !.generated = @ + 1]
          /\ tools' = [tools EXCEPT !.init = "returned"]
     ELSE /\ clients' = clients
          /\ obs' = obs
          /\ tools' = [tools EXCEPT !.init = "error"]
  /\ UNCHANGED <<now, storage, listener, promises>>
  /\ UNCHANGED <<converterVars, fileManager>>

\* globalOAuthClient.waitForAuthCompletion() and what the handler awaits
CompleteWaits ==
  /\ promises' = Append(promises, AuthCompletion("globalOAuthClient", now))
  /\ tools' = [tools EXCEPT !.complete = "waiting", !.result = Len(promises) + 1]

\* confluence_oauth_complete, called once confluence_oauth_init has ended:
\* without a client the ToolError; with openBrowser a new authorization URL is
\* generated and opened (`await execAsync'); without it the handler goes on
\* to wait for the completion
OAuthCompleteTool ==
  /\ tools.init \in {"returned", "error"}
  /\ tools.complete = "idle"
  /\ \E openBrowser \in BOOLEAN :
       IF ~clients["globalOAuthClient"].constructed
       THEN /\ tools' = [tools EXCEPT !.complete = "error"]
            /\ UNCHANGED <<clients, obs, promises>>
       ELSE IF openBrowser
       THEN /\ clients' = [clients EXCEPT !["globalOAuthClient"] =
                             generateAuthUrl(@, obs.generated + 1, now)]
            /\ obs' = [obs EXCEPT !.generated = @ + 1]
            /\ tools' = [tools EXCEPT !.complete = "opening"]
            /\ UNCHANGED promises
       ELSE /\ CompleteWaits
            /\ clients' = [clients EXCEPT !["globalOAuthClient"] =
                             waitForAuthCompletion(@, Len(promises) + 1)]
            /\ UNCHANGED obs
  /\ UNCHANGED <<now, storage, listener>>
  /\ UNCHANGED <<converterVars, fileManager>>

\* ... the browser command returned:
\* `await globalOAuthClient.waitForAuthCompletion()'
OAuthCompleteWait ==
  /\ tools.complete = "opening"
  /\ CompleteWaits
  /\ clients' = [clients EXCEPT !["globalOAuthClient"] =
                   waitForAuthCompletion(@, Len(promises) + 1)]
  /\ UNCHANGED <<now, storage, listener, obs>>
  /\ UNCHANGED <<converterVars, fileManager>>

\* ... the promise settled: on success the connection test (whose own token
\* refresh is not followed here) and stopCallbackServer(); on failure the
\* catch block stops the server and the ToolError is thrown
OAuthCompleteResult ==
  /\ tools.complete = "waiting"
  /\ promises[tools.result].settled # Null
  /\ \E testResult \in BOOLEAN :
       tools' = [tools EXCEPT !.complete =
                   IF promises[tools.result].settled = "success" /\ testResult
                   THEN "returned" ELSE "error"]
  /\ clients' = [clients EXCEPT !["globalOAuthClient"] = stopCallbackServer(@)]
  /\ listener' = PortAfterStop("globalOAuthClient")
  /\ UNCHANGED <<now, storage, promises, obs>>
  /\ UNCHANGED <<converterVars, fileManager>>

OAuthNext ==
  \/ \E c \in ClientIds :
       \/ LoadRetrieve(c) \/ LoadApply(c) \/ LoadRefreshed(c) \/ EnsureRefreshed(c)
       \/ ClearDone(c) \/ Listen(c)
       \/ OAuthCallback(c) \/ ExchangeResponse(c) \/ ResourcesResponse(c)
       \/ GenerateAuthUrl(c) \/ StartCallbackServer(c) \/ StopCallbackServer(c)
       \/ WaitForAuthCompletion(c) \/ Clear(c) \/ Deserialize(c)
       \/ IsAuthenticated(c) \/ EnsureValidToken(c)
  \/ Tick
  \/ OAuthInitTool \/ OAuthInitPort \/ OAuthInitGlobal
  \/ OAuthCompleteTool \/ OAuthCompleteWait \/ OAuthCompleteResult

OAuthSpec == OAuthInit /\ [][OAuthNext]_vars

(***************************************************************************)
(* Properties.                                                             *)
(***************************************************************************)
\* a tree with the optional fields the parser always writes filled in:
\* a codeBlock without a language has attrs.language undefined
RECURSIVE Normalize(_)
Normalize(node) ==
  IF node.type = "codeBlock"
  THEN [type |-> "codeBlock",
        attrs |-> [language |-> IF Has(node, "attrs") /\ Has(node.attrs, "language")
                                   /\ Truthy(node.attrs.language)
                                THEN node.attrs.language ELSE Undefined],
        content |-> ContentOf(node)]
  ELSE IF Has(node, "content")
  THEN [node EXCEPT !.content = [k \in 1..Len(node.content) |-> Normalize(node.content[k])]]
  ELSE node

NormalizeAll(ns) == [k \in 1..Len(ns) |-> Normalize(ns[k])]

\* every node of a forest, at any depth
RECURSIVE Descendants(_)
Descendants(ns) ==
  IF ns = <<>> THEN {}
  ELSE {ns[1]} \union Descendants(ContentOf(ns[1])) \union Descendants(Tail(ns))

\* C1: for every document of paragraphs, headings, single-mark text runs, code
\* blocks, lists, tables, panels and rules, parsing the serialized document
\* returns an equivalent tree.
C1_RoundTripExact ==
  (input.kind = "roundtrip" /\ pc \in {"done", "hung", "threw"})
    => (pc = "done" /\ NormalizeAll(nodes) = NormalizeAll(input.doc))

\* C2: every call of parseNode returns a nextIndex strictly greater than the cursor
\* it was given (and returns at all), whatever the shape of the line.
C2_ParseNodeAdvances ==
  (input.kind = "lines") => (last.nextIndex > last.start /\ pc # "hung")

\* C3: for every document and every non-empty metadata mapping with string values,
\* parsing the serialized document returns a mapping identical to the one given,
\* every value still a string.
C3_MetadataRoundTrip ==
  (input.kind = "meta" /\ pc \in {"done", "hung", "threw"})
    => (pc = "done" /\ metadata = input.meta)

\* C4: every heading node of every tree markdownToADF produces has a level
\* between 1 and 6.
C4_HeadingLevelInRange ==
  \A n \in Descendants(nodes) : n.type = "heading" => n.attrs.level \in 1..6

\* the input has a front-matter block whose body fails to decode
DecodeFails(md) ==
  /\ StartsWith(md, <<"-", "-", "-", "\n">>)
  /\ IndexOf(md, <<"\n", "-", "-", "-", "\n">>, 4) # -1
  /\ YamlParse(Substring(md, 4, IndexOf(md, <<"\n", "-", "-", "-", "\n">>, 4))).kind = "error"

\* C5: when the front-matter block of the input fails to decode, markdownToADF
\* raises the decode error and returns no document, and the upload handler ends
\* with an error without having called the Confluence client.
C5_DecodeErrorSurfaces ==
  (pc \notin {"tree", "upload", "text"} /\ DecodeFails(markdown))
    => /\ pc \in {"threw", "finished"}
       /\ pc = "finished" => (upload.state = "ToolError" /\ upload.calls = <<>>)

C5_Witness ==
  pc = "finished" /\ DecodeFails(markdown) /\ upload.state = "ToolError"
    /\ upload.calls = <<>>

\* the line '> {icon} **{Capitalized type}:** ' of a panel
PanelPrefix(panelType) ==
  CASE panelType = "info" ->
         <<">", " ", IconInfo, " ", "*", "*", "I", "n", "f", "o", ":", "*", "*", " ">>
    [] panelType = "warning" ->
         <<">", " ", IconWarning, " ", "*", "*", "W", "a", "r", "n", "i", "n", "g",
           ":", "*", "*", " ">>
    [] panelType = "error" ->
         <<">", " ", IconError, " ", "*", "*", "E", "r", "r", "o", "r", ":", "*", "*", " ">>
    [] panelType = "success" ->
         <<">", " ", IconSuccess, " ", "*", "*", "S", "u", "c", "c", "e", "s", "s",
           ":", "*", "*", " ">>
    [] panelType = "note" ->
         <<">", " ", IconNote, " ", "*", "*", "N", "o", "t", "e", ":", "*", "*", " ">>

PanelOfInput == input.doc[1]
PanelTextOfInput == PanelOfInput.content[1].content[1].text

\* the panel of the input is written as one line and read back from one line
PanelRoundTrips ==
  /\ pc \notin {"hung", "threw"}
  /\ pc # "tree" =>
       LET ls == Split(markdown, "\n")
       IN  /\ ls[1] = PanelPrefix(PanelOfInput.attrs.panelType) \o PanelTextOfInput
           /\ Len(ls) > 1 => ls[2] = <<>>
  /\ (pc \in {"loop", "done"} /\ last.start = 0) =>
       (last.nextIndex = 1 /\ nodes = <<PanelOfInput>>)
  /\ pc = "done" => (nodes # <<>> /\ nodes[1] = PanelOfInput)

\* C6 as stated: every panel of one paragraph with one non-empty single-line text
\* is written as the line '> {icon} **{Type}:** {text}', and that line is read
\* back, consuming one line, as the same panel.
C6_PanelRoundTripAnyText == input.kind = "panel" => PanelRoundTrips

\* C6: the same, for a text that has no leading or trailing whitespace.
C6_PanelRoundTrip ==
  (input.kind = "panel" /\ Trim(PanelTextOfInput) = PanelTextOfInput) => PanelRoundTrips

C6_Witness ==
  /\ input.kind = "panel" /\ pc = "done"
  /\ PanelOfInput.attrs.panelType = "warning"
  /\ PanelTextOfInput = <<"a", " ", "b">>
  /\ nodes # <<>> /\ nodes[1] = PanelOfInput

\* the delimiters a mark puts before and after the text it wraps
OpenDelimiter(mark) ==
  CASE mark.type = "strong" -> <<"*", "*">>
    [] mark.type = "em" -> <<"*">>
    [] mark.type = "code" -> <<Backtick>>
    [] mark.type = "strike" -> <<"~", "~">>
    [] mark.type = "link" -> <<"[">>

CloseDelimiter(mark) ==
  CASE mark.type = "strong" -> <<"*", "*">>
    [] mark.type = "em" -> <<"*">>
    [] mark.type = "code" -> <<Backtick>>
    [] mark.type = "strike" -> <<"~", "~">>
    [] mark.type = "link" -> <<"]", "(">> \o mark.attrs.href \o <<")">>

MarkedTextOfInput == input.doc[1].content[1]

\* C7 as stated: the delimiters of the first mark are the outermost and those of
\* the last mark are adjacent to the text.
C7_FirstMarkOutermost ==
  (input.kind = "marks" /\ pc # "tree") =>
    LET ms == MarkedTextOfInput.marks
        n == Len(ms)
    IN  markdown = Concat([k \in 1..n |-> OpenDelimiter(ms[k])])
                     \o MarkedTextOfInput.text
                     \o Concat([k \in 1..n |-> CloseDelimiter(ms[n + 1 - k])])

\* C7: the delimiters of the first mark are adjacent to the text and those of the
\* last mark are the outermost.
C7_FirstMarkInnermost ==
  (input.kind = "marks" /\ pc # "tree") =>
    LET ms == MarkedTextOfInput.marks
        n == Len(ms)
    IN  markdown = Concat([k \in 1..n |-> OpenDelimiter(ms[n + 1 - k])])
                     \o MarkedTextOfInput.text
                     \o Concat([k \in 1..n |-> CloseDelimiter(ms[k])])

C7_Witness ==
  /\ input.kind = "marks" /\ pc = "text"
  /\ Len(MarkedTextOfInput.marks) = 2
  /\ MarkedTextOfInput.marks[1].type = "strong"
  /\ MarkedTextOfInput.marks[2].type = "code"
  /\ markdown = <<Backtick, "*", "*", "a", "*", "*", Backtick>>

EndsWith(s, p) == Len(s) >= Len(p) /\ SubSeq(s, Len(s) - Len(p) + 1, Len(s)) = p

\* C8: a table of n >= 1 rows is written as n + 1 lines '| c1 | c2 | ... |': the
\* first row, a separator with one '---' per cell of the first row, then the other
\* rows in order; every cell is trimmed and holds no newline.
C8_TableSerialization ==
  (input.kind = "table" /\ pc # "tree") =>
    LET rows == input.doc[1].content
        n == Len(rows)
        ls == Split(markdown, "\n")
        LineOf(r) == IF r = 1 THEN 1 ELSE r + 1
        cellText(r, c) == CellToMarkdown(rows[r].content[c])
    IN  /\ Len(ls) = n + 1
        /\ \A k \in 1..Len(ls) : StartsWith(ls[k], <<"|", " ">>) /\ EndsWith(ls[k], <<" ", "|">>)
        /\ ls[2] = <<"|", " ">>
                     \o Join([c \in 1..Len(rows[1].content) |-> <<"-", "-", "-">>],
                             <<" ", "|", " ">>)
                     \o <<" ", "|">>
        /\ \A r \in 1..n :
             /\ ls[LineOf(r)] = <<"|", " ">>
                  \o Join([c \in 1..Len(rows[r].content) |-> cellText(r, c)], <<" ", "|", " ">>)
                  \o <<" ", "|">>
             /\ \A c \in 1..Len(rows[r].content) :
                  /\ Trim(cellText(r, c)) = cellText(r, c)
                  /\ \A k \in 1..Len(cellText(r, c)) : cellText(r, c)[k] # "\n"

C8_Witness ==
  /\ input.kind = "table" /\ pc = "text"
  /\ Len(input.doc[1].content) = 2
  /\ Len(input.doc[1].content[1].content) = 2
  /\ Len(Split(markdown, "\n")) = 3

\* the indices (from 1) of the lines that begin a run of lines starting with '| '
RunStarts(ls) ==
  {k \in 1..Len(ls) : /\ StartsWith(ls[k], <<"|", " ">>)
                       /\ (k = 1 \/ ~StartsWith(ls[k - 1], <<"|", " ">>))}

\* every run of lines starting with '| ' gave one top-level table node
OneTablePerRun ==
  (input.kind = "tablelines" /\ pc = "done") =>
    Cardinality({k \in 1..Len(nodes) : nodes[k].type = "table"}) = Cardinality(RunStarts(lines))

OneNodePerBlock ==
  /\ pc \notin {"hung", "threw"}
  /\ pc = "done" =>
       /\ Len(nodes) = Len(input.blocks)
       /\ \A k \in 1..Len(nodes) : nodes[k].type = input.blocks[k].type

NoAdjacentBulletLists(blocks) ==
  \A k \in 1..(Len(blocks) - 1) :
    ~(blocks[k].type = "bulletList" /\ blocks[k + 1].type = "bulletList")

C11_HeadingTextRoundTrip ==
  input.kind = "headings" =>
    /\ pc \notin {"hung", "threw"}
    /\ pc \in {"done", "rendered"} =>
         /\ Len(nodes) = Len(input.blocks)
         /\ \A k \in 1..Len(nodes) :
              nodes[k] = [type |-> "heading", attrs |-> [level |-> input.blocks[k].level],
                          content |-> <<PlainText(input.blocks[k].text)>>]
    /\ pc = "rendered" => markdown = input.text

C11_Witness ==
  /\ input.kind = "headings" /\ pc = "rendered"
  /\ Len(nodes) = 2 /\ nodes[1].attrs.level = 6 /\ nodes[2].attrs.level = 2
  /\ markdown = input.text

\* C12: the empty string, and every text of blank or whitespace-only lines, parses
\* without error into a document with empty content and no metadata, and
\* serializing that document returns the empty string.
C12_EmptyInputRoundTrip ==
  input.kind = "blank" =>
    /\ pc \notin {"hung", "threw"}
    /\ pc = "loop" => nodes = <<>>
    /\ pc \in {"done", "rendered"} => (nodes = <<>> /\ metadata = NoMetadata)
    /\ pc = "rendered" => markdown = <<>>

C12_Witness ==
  /\ input.kind = "blank" /\ pc = "rendered"
  /\ Len(lines) = 3 /\ lines[2] = <<"\t">>
  /\ nodes = <<>> /\ markdown = <<>>

\* the client method was called in this run of the upload handler
Called(method) == \E k \in 1..Len(upload.calls) : upload.calls[k] = method

\* the page ID the run has to use: the filename prefix, else the front-matter pageId
FoundPageId ==
  IF input.pageIdFromFilename # <<>> THEN input.pageIdFromFilename
  ELSE MetadataPageId(metadata)

\* what holds of every finished run of the upload handler
UploadDecision ==
  /\ ~(Called("updateContent") /\ Called("createContent"))
  /\ Called("updateContent") =>
       (upload.converted /\ FoundPageId # <<>> /\ upload.existingPageId = FoundPageId)
  /\ Called("createContent") =>
       (upload.converted /\ FoundPageId = <<>> /\ input.spaceKey # <<>>)
  /\ (upload.converted /\ FoundPageId = <<>> /\ input.spaceKey = <<>>) =>
       (upload.state = "ToolError" /\ upload.calls = <<>>)
  /\ (upload.converted /\ FoundPageId = <<>> /\ input.spaceKey # <<>>) =>
       upload.calls = <<"createContent">>

\* C19 as stated: at most one of updateContent and createContent is called;
\* updateContent is called exactly when a page ID is found (the filename's first);
\* createContent only without a page ID and with a spaceKey; with neither the
\* handler fails and calls neither.
C19_UpdateExactlyWhenPageIdFound ==
  (input.kind = "upload" /\ pc = "finished") =>
    /\ UploadDecision
    /\ (upload.converted /\ FoundPageId # <<>>) => Called("updateContent")

\* C19: the same, with updateContent called only when a page ID is found, and
\* then called if and only if getContent for that ID, called first, succeeded.
C19_UpdateOrCreateByPageId ==
  (input.kind = "upload" /\ pc = "finished") =>
    /\ UploadDecision
    /\ (upload.converted /\ FoundPageId # <<>>) =>
         /\ upload.existingPageId = FoundPageId
         /\ upload.calls \in {<<"getContent">>, <<"getContent", "updateContent">>}
         /\ upload.calls = <<"getContent">> => upload.state = "ToolError"

C19_Witness ==
  /\ input.kind = "upload" /\ pc = "finished"
  /\ input.pageIdFromFilename = <<"7">>
  /\ MetadataPageId(metadata) = <<"1", "2", "3">>
  /\ upload.state = "returned" /\ upload.existingPageId = <<"7">>
  /\ Called("updateContent")

\* C20: when no target directory is passed, the base directory is
\* <cwd>/confluence-downloads if it exists, otherwise the configured baseDirectory
\* if one is set, otherwise <home>/confluence-downloads.
C20_StorageLocationPriority ==
  (input.kind = "storage" /\ pc = "finished" /\ fileManager.targetDir = NotSet) =>
    fileManager.baseDir = IF fileManager.cwdExists THEN CwdDownloads
                 ELSE IF fileManager.baseDirectory # NotSet THEN fileManager.baseDirectory
                 ELSE HomeDownloads

(***************************************************************************)
(* Properties of the OAuth client and tools.                               *)
(***************************************************************************)
\* C14: when confluence_oauth_init runs with no callback server started and
\* the redirect port free, it ends by returning the authorization URL, and
\* from then until confluence_oauth_complete is called the server listening
\* on the redirect port is the one of globalOAuthClient, the client whose
\* generateAuthUrl() made the URL.
C14_InitStartsOneCallbackServer ==
  (tools.init \in {"returned", "error"} /\ obs.portWasFree /\ tools.complete = "idle")
    => /\ tools.init = "returned"
       /\ listener = "globalOAuthClient"
       /\ clients["globalOAuthClient"].callbackServer = "listening"
       /\ clients["globalOAuthClient"].oauthState.present

\* the documented flow through the tools: confluence_oauth_init, the user
\* grants access at the authorization URL before any wait has timed out and
\* no request to Atlassian fails, then confluence_oauth_complete: the
\* completion the handler awaited reported success
CompleteReportsGrant ==
  (tools.complete \in {"returned", "error"} /\ tools.result # 0
   /\ obs.granted /\ ~obs.failed)
    => promises[tools.result].settled = "success"

\* a callback that was handled with success before waitForAuthCompletion()
\* was called is not lost: the returned promise does not end as a timeout
EarlierCallbackNotLost ==
  \A p \in DOMAIN promises :
    promises[p].authorized => promises[p].settled # "Authentication timeout"

\* C13: the documented OAuth flow completes: after init, the user's visit and
\* a successful exchange in the callback, complete reports success, also
\* when the callback was handled before complete started waiting.
C13_DocumentedFlowCompletes == CompleteReportsGrant /\ EarlierCallbackNotLost

\* C15: once clear() has resolved, and until a new authorization callback, a
\* token refresh or deserialize() gives the client tokens again,
\* isAuthenticated() is false and getAuthHeaders(), getCloudId() and
\* getDomainUrl() throw, in every interleaving with the constructor's load.
C15_ClearClearsAllState ==
  obs.cleared => /\ ~isAuthenticated(clients["oauthClient"])
                 /\ GettersThrow(clients["oauthClient"])

\* C16: every promise returned by waitForAuthCompletion() is resolved, with
\* the callback's result or, at the latest when its 5-minute timer fires,
\* with the timeout result; also when waitForAuthCompletion() is called a
\* second time or clear() is called while it is pending.
C16_WaitAlwaysResolves ==
  \A p \in DOMAIN promises :
    promises[p].timer = "fired" => promises[p].settled # Null

\* a refresh token exists and the access token was issued or last refreshed
\* more than expires_in - 300 seconds before t
RefreshDue(c, t) ==
  c.tokens.refresh_token /\ t - c.tokens.issued > (c.tokens.expires_in - RefreshEarly) * 1000

\* C17: a call of ensureValidToken() that finds tokens starts a refresh
\* exactly when a refresh token exists and the access token is older than
\* expires_in - 300 seconds; so a call right after a successful refresh does
\* not refresh again.
C17_RefreshExactlyWhenDue ==
  [][(obs'.last.called = "ensureValidToken" /\ obs'.calls = obs.calls + 1
      /\ ~obs'.last.threw)
       => (obs'.last.refreshed <=> RefreshDue(clients["oauthClient"], now))]_vars

\* tokens, cloudId and domainUrl are all non-null
AllPresent(c) == c.tokens.present /\ c.cloudId # Null /\ c.domainUrl # Null

\* a step in which isAuthenticated() is called
IsAuthenticatedCalled ==
  obs'.last.called = "isAuthenticated" /\ obs'.calls = obs.calls + 1

\* C18 as stated: isAuthenticated() returns true if and only if tokens,
\* cloudId and domainUrl are all non-null.
C18_AuthenticatedIffAllPresent ==
  [][IsAuthenticatedCalled
       => (obs'.last.returned <=> AllPresent(clients["oauthClient"]))]_vars

\* C18, amended: isAuthenticated() returns true if and only if the load of
\* the stored tokens has finished (isLoaded) and tokens, cloudId and domainUrl
\* are all non-null; while the load is unfinished it returns false.
C18_AuthenticatedIffLoadedAndAllPresent ==
  [][IsAuthenticatedCalled
       => (obs'.last.returned <=> (clients["oauthClient"].isLoaded
                                    /\ AllPresent(clients["oauthClient"])))]_vars

\* isAuthenticated() has just returned true
C18_Witness ==
  /\ obs.last.called = "isAuthenticated"
  /\ obs.last.returned
  /\ AllPresent(clients["oauthClient"])
(***************************************************************************)
(* Properties of the block recognizers, the front-matter detection and the *)
(* inline tokenizer.                                                       *)
(***************************************************************************)
\* the node type of the first rule a trimmed, non-blank line matches, in the
\* order heading, code fence, quote or panel, list, table, rule, paragraph
FirstMatchingRule(line) ==
  IF StartsWith(line, <<"#">>) THEN "heading"
  ELSE IF StartsWith(line, <<Backtick, Backtick, Backtick>>) THEN "codeBlock"
  ELSE IF StartsWith(line, <<">", " ">>)
  THEN (IF MatchPanel(line).ok THEN "panel" ELSE "blockquote")
  ELSE IF IsOrderedItem(line) THEN "orderedList"
  ELSE IF IsBulletItem(line) THEN "bulletList"
  ELSE IF StartsWith(line, <<"|", " ">>) THEN "table"
  ELSE IF line = <<"-", "-", "-">> THEN "rule"
  ELSE "paragraph"

\* the line the latest parseNode call was started at, trimmed
LastLine == Trim(LineAt(lines, last.start))

\* C21: the node parseNode returns for a non-blank line has the type of the first
\* matching rule in the order heading, code fence, quote or panel, list, table,
\* rule, paragraph; a line that is exactly '---' gives a rule and a line matching
\* no earlier rule gives one paragraph, each consuming exactly one line; a blank
\* line gives no node.
C21_DispatchPriority ==
  (input.kind = "lines" /\ last.start >= 0) =>
    IF LastLine = <<>> THEN Len(nodes) = last.before
    ELSE /\ Len(nodes) = last.before + 1
         /\ nodes[Len(nodes)].type = FirstMatchingRule(LastLine)
         /\ nodes[Len(nodes)].type \in {"rule", "paragraph"}
              => last.nextIndex = last.start + 1
         /\ LastLine = <<"-", "-", "-">> => nodes[Len(nodes)] = [type |-> "rule"]
         /\ nodes[Len(nodes)].type = "paragraph"
              => nodes[Len(nodes)].content = parseInlineMarkdown(LastLine)

C21_Witness ==
  /\ input.kind = "lines" /\ pc = "done"
  /\ lines = <<<<"-", "-", "-">>, <<"t">>>>
  /\ nodes = <<[type |-> "rule"], [type |-> "paragraph", content |-> <<PlainText(<<"t">>)>>]>>
  /\ last = [start |-> 1, nextIndex |-> 2, before |-> 1]


\* the lines of the input text
InputLines == Split(input.text, "\n")

\* the lines that close a front-matter block opened by the first line: a line
\* '---' after the first two lines and followed by a newline
ClosingFences ==
  {j \in 3..(Len(InputLines) - 1) : InputLines[j] = <<"-", "-", "-">>}

OpeningFence == Len(InputLines) >= 2 /\ InputLines[1] = <<"-", "-", "-">>

\* lines a..b of the input joined again
InputBetween(a, b) == Join(SubSeq(InputLines, a, b), <<"\n">>)

FrontMatterRemoved(j) ==
  LET decoded == YamlParse(InputBetween(2, j - 1))
  IN  /\ pc = "threw" <=> decoded.kind = "error"
      /\ pc # "threw" =>
            /\ lines = Split(Trim(InputBetween(j + 1, Len(InputLines))), "\n")
            /\ pc = "loop" => metadata = decoded
            /\ pc = "done" => metadata = IF MetadataTruthy(decoded) THEN decoded ELSE NoMetadata

\* C22: when the input starts with '---\n' and has a later '\n---\n', the lines
\* between the two fences are decoded as the metadata and the content parsed is the
\* (trimmed) text after the closing fence, so neither the block nor the two fence
\* lines are parsed as content; when the input starts with '---\n' and has no
\* later '\n---\n', no metadata is returned and the whole input is the content,
\* its first line giving a rule.
C22_FrontMatterDetection ==
  (input.kind \in {"frontmatter", "fences"} /\ pc # "text" /\ OpeningFence) =>
    IF ClosingFences # {}
    THEN FrontMatterRemoved(Min(ClosingFences))
    ELSE /\ pc # "threw"
         /\ metadata = NoMetadata
         /\ lines = InputLines
         /\ Len(nodes) >= 1 => nodes[1] = [type |-> "rule"]
         /\ pc = "done" => Len(nodes) >= 1

C22_Witness ==
  /\ input.kind = "fences" /\ pc = "done"
  /\ ClosingFences = {3, 4}
  /\ metadata.kind = "map"
  /\ nodes = <<[type |-> "rule"], [type |-> "paragraph", content |-> <<PlainText(<<"t">>)>>]>>

C22_WitnessNoClosingFence ==
  /\ input.kind = "fences" /\ pc = "done"
  /\ OpeningFence /\ ClosingFences = {} /\ InputLines[2] = <<"-", "-", "-">>
  /\ metadata = NoMetadata
  /\ nodes = <<[type |-> "rule"], [type |-> "rule"], [type |-> "paragraph", content |-> <<PlainText(<<"t">>)>>]>>


\* the line the latest parseNode call was started at, as it is in the text
LastRawLine == LineAt(lines, last.start)

IsItemOfKind(ordered, line) ==
  IF ordered THEN IsOrderedItem(line) ELSE IsBulletItem(line)

\* the index of the first non-blank line from k on that is not an item of the
\* kind, or the number of lines
ListEnd(k, ordered) ==
  LET others == {j \in k..(Len(lines) - 1) :
                   /\ Trim(LineAt(lines, j)) # <<>>
                   /\ ~IsItemOfKind(ordered, LineAt(lines, j))}
  IN  IF others = {} THEN Len(lines) ELSE Min(others)

\* one listItem for each non-blank line of lines[k..end-1], in order
ItemsOf(k, end) ==
  LET itemLines == SelectSeq(SubSeq(lines, k + 1, end), LAMBDA l : Trim(l) # <<>>)
  IN  [n \in 1..Len(itemLines) |->
         [type |-> "listItem",
          content |-> <<[type |-> "paragraph",
                         content |-> parseInlineMarkdown(StripListMarker(itemLines[n]))]>>]]

\* the latest parseNode call returned the list that starts at its cursor
ListParsed ==
  LET ordered == IsOrderedItem(LastRawLine)
      end == ListEnd(last.start, ordered)
  IN  /\ Len(nodes) = last.before + 1
      /\ nodes[Len(nodes)] = [type |-> IF ordered THEN "orderedList" ELSE "bulletList",
                              content |-> ItemsOf(last.start, end)]
      /\ last.nextIndex = end

\* C23: started at a line that begins with '- ', '* ' or digits + '. ', parseNode
\* returns one list node, orderedList iff the line begins with digits + '. ', with
\* one listItem per following line of the same kind in order; blank lines are
\* skipped without ending the list, and the first non-blank line that is not an
\* item of the same kind ends the list and is where the next call starts.
C23_ListParsing ==
  (input.kind = "listlines" /\ last.start >= 0
     /\ (IsBulletItem(LastRawLine) \/ IsOrderedItem(LastRawLine)))
    => ListParsed

\* the same, for a first line that has more than whitespace after its marker
ListParsedWhenMarkerHasText ==
  (input.kind = "listlines" /\ last.start >= 0
     /\ (IsBulletItem(Trim(LastRawLine)) \/ IsOrderedItem(Trim(LastRawLine))))
    => ListParsed

ListParsedWitness ==
  /\ input.kind = "listlines" /\ pc = "done"
  /\ lines = <<<<"1", "0", ".", " ", "d">>, <<" ", " ">>, <<"1", ".", " ", "c">>>>
  /\ Len(nodes) = 1 /\ nodes[1].type = "orderedList" /\ Len(nodes[1].content) = 2


\* the code blocks among the top-level nodes
CodeBlocksIn(ns) == SelectSeq(ns, LAMBDA n : n.type = "codeBlock")

TextNodes(ns) == {n \in Descendants(ns) : n.type = "text"}

\* C25: every text node of every tree the parser produces, from any input, has
\* no marks or exactly one mark.
C25_AtMostOneMark ==
  \A n \in TextNodes(nodes) : Has(n, "marks") => Len(n.marks) = 1

C25_Witness ==
  /\ input.kind = "inline" /\ pc = "tokens"
  /\ input.text = <<"*", "*", "*", "x", "*", "*", "*">>
  /\ nodes = <<PlainText(<<"*">>), MarkedText(<<"x">>, <<Mark("strong")>>), PlainText(<<"*">>)>>

\* the tokenizer run iteration by iteration returns what parseInlineMarkdown
\* computed in one step returns
InlineStepsAgree ==
  (input.kind = "inline" /\ pc = "tokens") => nodes = parseInlineMarkdown(input.text)

\* C26: every iteration of the loop of parseInlineMarkdown pushes one node and
\* removes at least one character from remaining, so the loop ends after at most
\* text.length iterations.
C26_InlineIterationShrinks ==
  [][(pc = "inline" /\ pc' = "inline")
       => /\ Len(markdown') < Len(markdown)
          /\ Len(nodes') = Len(nodes) + 1
          /\ Len(nodes') + Len(markdown') <= Len(input.text)]_vars

C26_Witness ==
  /\ input.kind = "inline" /\ pc = "tokens"
  /\ input.text = <<"~", "~", "~", "~">>
  /\ Len(nodes) = 4 /\ markdown = <<>>

\* C28: for every single-line text t, inlineToMarkdown(parseInlineMarkdown(t)) is
\* t, also when special characters are unmatched.
C28_InlineRoundTrip ==
  (input.kind = "inline" /\ pc = "rendered") => markdown = input.text

C28_Witness ==
  /\ input.kind = "inline" /\ pc = "rendered"
  /\ input.text = <<"*", "*", "a", " ", "*", "b", "*", " ", "c", "*", "*">>
  /\ Len(nodes) = 5 /\ nodes[2] = MarkedText(<<"a", " ">>, <<Mark("em")>>)
  /\ markdown = input.text


\* parsing the serialized document returned no metadata and the document
NoMetadataNoLoss ==
  /\ pc \notin {"hung", "threw"}
  /\ pc = "done" => (metadata = NoMetadata /\ NormalizeAll(nodes) = NormalizeAll(input.doc))

\* C29: for every document serialized without metadata, parsing the serialized
\* text returns no metadata and every block of the document, also when the first
\* node is a rule and a later node is a rule.
C29_NoSpuriousMetadata == input.kind = "rules" => NoMetadataNoLoss

\* the same for the documents that do not start with a rule
NoSpuriousMetadataWithoutLeadingRule ==
  (input.kind = "rules" /\ input.doc[1] # Rule) => NoMetadataNoLoss


\* a document starting with a rule whose paragraph came back as the metadata
SpuriousMetadata ==
  /\ input.kind = "rules" /\ pc = "done"
  /\ input.doc = <<Rule, Para(<<PlainText(<<"a">>)>>), Rule, Para(<<PlainText(<<"a">>)>>)>>
  /\ metadata = [kind |-> "scalar", value |-> <<"a">>]
  /\ nodes = <<Para(<<PlainText(<<"a">>)>>)>>


\* C30: for every blockquote whose children are single-line paragraphs, at any
\* position of the document including the last, parsing the serialized document
\* returns the document: one blockquote in its place with the same paragraphs, and
\* no node made from the '> ' lines the serializer writes for the blank lines.
C30_BlockquoteRoundTrip ==
  input.kind = "quotes" =>
    /\ pc \notin {"hung", "threw"}
    /\ pc = "done" => NormalizeAll(nodes) = NormalizeAll(input.doc)

\* the same for a blockquote that is not the last block of the document
BlockquoteRoundTripNotLast ==
  (input.kind = "quotes" /\ input.doc[Len(input.doc)].type # "blockquote") =>
    /\ pc \notin {"hung", "threw"}
    /\ pc = "done" => NormalizeAll(nodes) = NormalizeAll(input.doc)

\* a blockquote at the end of the document followed by a paragraph '>'
BareQuoteMarkerParagraph ==
  /\ input.kind = "quotes" /\ pc = "done"
  /\ Len(input.doc) = 2 /\ Len(nodes) = 3
  /\ nodes[2] = input.doc[2] /\ nodes[2].type = "blockquote"
  /\ nodes[3] = Para(<<PlainText(<<">">>)>>)


\* the handler of client c starts exchangeCodeForTokens in this step
ExchangeStarts(c) ==
  /\ clients[c].constructed /\ clients'[c].constructed
  /\ clients[c].callback = Null /\ clients'[c].callback = "exchangeCodeForTokens"

\* the handler of client c answers 400 in this step and tells the waiter p
CallbackRejected(c, p) ==
  /\ clients[c].constructed /\ listener = c
  /\ clients[c].authCompletionResolver = p /\ p # 0
  /\ promises[p].settled = Null /\ promises'[p].settled # Null
  /\ clients[c].callback = Null /\ now' = now

\* C27: the callback handler starts the exchange of the code only for a request
\* without error, with a code and with the state of the most recently generated
\* authorization URL (the state the handler accepts is the client's oauthState);
\* when it rejects a request, tokens, cloudId and domainUrl stay as they are and
\* the pending waiter gets a result that is not a success.
C27_CallbackStateCheck ==
  [][\A c \in ClientIds :
       /\ ExchangeStarts(c)
            => (clients[c].oauthState.present
                /\ clients[c].oauthState.state = obs.generated)
       /\ \A p \in DOMAIN promises :
            CallbackRejected(c, p)
              => /\ clients'[c].tokens = clients[c].tokens
                 /\ clients'[c].cloudId = clients[c].cloudId
                 /\ clients'[c].domainUrl = clients[c].domainUrl
                 /\ promises'[p].settled # "success"]_vars

\* the handler starts the exchange only for the state its client holds, and a
\* rejected request leaves the client as it is
ExchangeOnlyForClientState ==
  [][\A c \in ClientIds :
       /\ ExchangeStarts(c) => clients[c].oauthState.present
       /\ \A p \in DOMAIN promises :
            CallbackRejected(c, p)
              => (clients' = clients /\ promises'[p].settled # "success")]_vars

\* the state of an earlier run, restored by loadTokens after generateAuthUrl,
\* is the one the handler accepts
StaleStateAccepted ==
  /\ tools.mode = "class"
  /\ obs.generated = 1
  /\ clients["oauthClient"].oauthState = OAuthState(0, StartTime)
  /\ clients["oauthClient"].callback = "exchangeCodeForTokens"


====
